---------------------------- MODULE Spec2Model ----------------------------
(***************************************************************************)
(* Verification model of the agent loops and helpers of ai-candyshop:      *)
(*   thinking_ReAct.py  (extract_json_from_text, run_gemini_simulation)    *)
(*   research_exa.py    (extract_json_from_response, deep-research loop)   *)
(*   pdf2md.py          (thread pool of page OCR workers)                  *)
(*                                                                         *)
(* Texts are sequences of lexemes.  Each lexeme stands for a fixed run of  *)
(* characters:                                                             *)
(*   "{" "}" "[" "]" ","   the JSON punctuation characters                 *)
(*   " "                   one whitespace character                        *)
(*   "F"                   a Markdown fence, three backticks               *)
(*   "j"                   the word json (a fence tag, or plain prose)     *)
(*   "x"                   a JSON string literal "x"                       *)
(*   "s}"                  the JSON string literal "}" (quote, brace,      *)
(*                         quote): a string whose content is a brace       *)
(*   "k:" "action:" ...    an object key followed by its colon             *)
(*   "search" "visit" ...  JSON string literals used as values             *)
(*   "BROKEN"              what is left of "s}" when a slice ends at its   *)
(*                         brace: an unterminated string                   *)
(***************************************************************************)
EXTENDS Integers, Sequences, FiniteSets, TLC

\* ------------------------------------------------------------------ bounds
\* longest text enumerated exhaustively over Sigma
MaxLen == 4

\* ------------------------------------------------------------- lexemes
Keys == {"k:", "action:", "action_input:", "thought:"}

Scalars == {"x", "s}", "search", "visit", "answer", "fly", "q", "u", "t"}

Sigma == {"{", "}", "[", "]", " ", "F", "j", "x", "k:"}

\* lexemes whose characters include a closing brace
HasCloseBrace(t) == t \in {"}", "s}"}

Min(S) == CHOOSE m \in S : \A n \in S : m <= n

Max(S) == CHOOSE m \in S : \A n \in S : m >= n

\* ------------------------------------------------------------- json.loads
IsWs(t) == t = " "

\* str.strip(): drop leading and trailing whitespace
Strip(s) ==
    LET keep == {i \in 1..Len(s) : ~IsWs(s[i])}
    IN  IF keep = {} THEN <<>> ELSE SubSeq(s, Min(keep), Max(keep))

\* the JSON scanner skips whitespace between lexemes
NoWs(s) == SelectSeq(s, LAMBDA t : ~IsWs(t))

RECURSIVE ValueEnd(_, _)
RECURSIVE MembersEnd(_, _)
RECURSIVE ElementsEnd(_, _)
\* index of the last lexeme of the JSON value that starts at s[i]; 0 if none
ValueEnd(s, i) ==
    IF i > Len(s) THEN 0
    ELSE IF s[i] \in Scalars THEN i
    ELSE IF s[i] = "{" THEN
        IF i + 1 <= Len(s) /\ s[i + 1] = "}" THEN i + 1 ELSE MembersEnd(s, i + 1)
    ELSE IF s[i] = "[" THEN
        IF i + 1 <= Len(s) /\ s[i + 1] = "]" THEN i + 1 ELSE ElementsEnd(s, i + 1)
    ELSE 0

\* s[i] starts a member list; index of the closing brace, 0 if malformed
MembersEnd(s, i) ==
    IF i > Len(s) \/ s[i] \notin Keys THEN 0
    ELSE LET e == ValueEnd(s, i + 1)
         IN  IF e = 0 \/ e + 1 > Len(s) THEN 0
             ELSE IF s[e + 1] = "}" THEN e + 1
             ELSE IF s[e + 1] = "," THEN MembersEnd(s, e + 2)
             ELSE 0

\* s[i] starts an element list; index of the closing bracket, 0 if malformed
ElementsEnd(s, i) ==
    LET e == ValueEnd(s, i)
    IN  IF e = 0 \/ e + 1 > Len(s) THEN 0
        ELSE IF s[e + 1] = "]" THEN e + 1
        ELSE IF s[e + 1] = "," THEN ElementsEnd(s, e + 2)
        ELSE 0

\* the result of an extraction: a parsed value (its lexemes without
\* whitespace) or nothing (None, or the caller's default)
Nothing == [ok |-> FALSE, val |-> <<>>]

Parsed(v) == [ok |-> TRUE, val |-> v]

\* json.loads: the whole text must be exactly one JSON value
json_loads(s) ==
    LET t == NoWs(s)
    IN  IF t # <<>> /\ ValueEnd(t, 1) = Len(t) THEN Parsed(t) ELSE Nothing

\* text[a:b+1] in characters, where b may be the brace inside a "s}" lexeme
Cut(s, a, b) ==
    IF s[b] = "s}" THEN SubSeq(s, a, b - 1) \o <<"BROKEN">> ELSE SubSeq(s, a, b)

\* ------------------------------------- research_exa.extract_json_from_response
\* re.search(r"```(?:json)?\s*(.*?)\s*```", content, re.DOTALL).group(1)
CodeBlockMatch(c) ==
    LET opens == {i \in 1..Len(c) : c[i] = "F" /\ \E m \in (i + 1)..Len(c) : c[m] = "F"}
    IN  IF opens = {} THEN [found |-> FALSE, body |-> <<>>]
        ELSE LET i == Min(opens)
                 a == IF c[i + 1] = "j" THEN i + 2 ELSE i + 1
                 \* greedy \s*
                 p == Min({x \in a..Len(c) : ~IsWs(c[x])})
                 \* lazy (.*?): first end from which \s*``` matches
                 q == Min({x \in p..Len(c) :
                             \E m \in x..Len(c) :
                                 /\ c[m] = "F"
                                 /\ \A y \in x..(m - 1) : IsWs(c[y])})
             IN  [found |-> TRUE, body |-> SubSeq(c, p, q - 1)]

\* re.search(r"(\{.*\})", content, re.DOTALL).group(1): greedy
ObjMatch(c) ==
    LET starts == {i \in 1..Len(c) :
                     c[i] = "{" /\ \E e \in (i + 1)..Len(c) : HasCloseBrace(c[e])}
    IN  IF starts = {} THEN [found |-> FALSE, body |-> <<>>]
        ELSE LET i == Min(starts)
                 e == Max({x \in (i + 1)..Len(c) : HasCloseBrace(c[x])})
             IN  [found |-> TRUE, body |-> Cut(c, i, e)]

\* re.search(r"(\[.*\])", content, re.DOTALL).group(1): greedy
ArrMatch(c) ==
    LET starts == {i \in 1..Len(c) :
                     c[i] = "[" /\ \E e \in (i + 1)..Len(c) : c[e] = "]"}
    IN  IF starts = {} THEN [found |-> FALSE, body |-> <<>>]
        ELSE LET i == Min(starts)
                 e == Max({x \in (i + 1)..Len(c) : c[x] = "]"})
             IN  [found |-> TRUE, body |-> SubSeq(c, i, e)]

\* ResponseBruteForce with the array span tried before the object span
ResponseBruteForceArrayFirst(c) ==
    LET o == ObjMatch(c)
        r == ArrMatch(c)
    IN  IF r.found /\ json_loads(r.body).ok THEN json_loads(r.body)
        ELSE IF o.found /\ json_loads(o.body).ok THEN json_loads(o.body)
        ELSE Nothing

\* strategy 3 of extract_json_from_response; Nothing stands for `default`
ResponseBruteForce(c) ==
    LET o == ObjMatch(c)
        r == ArrMatch(c)
    IN  IF o.found /\ json_loads(o.body).ok THEN json_loads(o.body)
        ELSE IF r.found /\ json_loads(r.body).ok THEN json_loads(r.body)
        ELSE Nothing

extract_json_from_response(content) ==
    IF content = <<>> THEN Nothing
    ELSE LET c == Strip(content)
             b == CodeBlockMatch(c)
         IN  IF json_loads(c).ok THEN json_loads(c)
             ELSE IF b.found /\ json_loads(b.body).ok THEN json_loads(b.body)
             ELSE ResponseBruteForce(c)

\* ------------------------------------- thinking_ReAct.extract_json_from_text
\* re.search(r"```(?:json)?\s*(\{.*?\})\s*```", text, re.DOTALL).group(1)
\* position of the opening brace when the pattern is anchored at fence i; 0 if
\* the prefix ```(?:json)?\s*\{ does not match there
FencedBraceAt(c, i) ==
    IF c[i] # "F" THEN 0
    ELSE LET a == IF i + 1 <= Len(c) /\ c[i + 1] = "j" THEN i + 2 ELSE i + 1
             rest == {x \in a..Len(c) : ~IsWs(c[x])}
         IN  IF rest = {} THEN 0
             ELSE IF c[Min(rest)] = "{" THEN Min(rest) ELSE 0

\* ends of the lazy group: a closing brace followed by \s*```
FencedEnds(c, p) ==
    {e \in (p + 1)..Len(c) :
        /\ c[e] = "}"
        /\ \E m \in (e + 1)..Len(c) :
              /\ c[m] = "F"
              /\ \A y \in (e + 1)..(m - 1) : IsWs(c[y])}

FencedObjMatch(c) ==
    LET opens == {i \in 1..Len(c) :
                    FencedBraceAt(c, i) # 0 /\ FencedEnds(c, FencedBraceAt(c, i)) # {}}
    IN  IF opens = {} THEN [found |-> FALSE, body |-> <<>>]
        ELSE LET p == FencedBraceAt(c, Min(opens))
             IN  [found |-> TRUE, body |-> SubSeq(c, p, Min(FencedEnds(c, p)))]

\* the running bracket_count after the characters of text[start..i]
RECURSIVE BracketCount(_, _, _)
BracketCount(c, start, i) ==
    IF i < start THEN 0
    ELSE BracketCount(c, start, i - 1)
            + (IF c[i] = "{" THEN 1 ELSE 0)
            - (IF HasCloseBrace(c[i]) THEN 1 ELSE 0)

\* strategy 3 of extract_json_from_text
BracketScan(c) ==
    LET braces == {i \in 1..Len(c) : c[i] = "{"}
    IN  IF braces = {} THEN Nothing
        ELSE LET start == Min(braces)
                 zeros == {i \in start..Len(c) : BracketCount(c, start, i) = 0}
             IN  IF zeros = {} THEN Nothing
                 ELSE json_loads(Cut(c, start, Min(zeros)))

\* extract_json_from_text without its first attempt, json.loads(text)
extract_json_from_text_NoDirect(text) ==
    IF text = <<>> THEN Nothing
    ELSE LET m == FencedObjMatch(text)
         IN  IF m.found /\ json_loads(m.body).ok THEN json_loads(m.body)
             ELSE BracketScan(text)

extract_json_from_text(text) ==
    IF text = <<>> THEN Nothing
    ELSE LET m == FencedObjMatch(text)
         IN  IF json_loads(text).ok THEN json_loads(text)
             ELSE IF m.found /\ json_loads(m.body).ok THEN json_loads(m.body)
             ELSE BracketScan(text)

\* ---------------------------------------------------------------- state
VARIABLES
    jtext,        \* the text handed to the two extractors
    jresp,        \* what extract_json_from_response returned
    jtxt,         \* what extract_json_from_text returned
    respDone,     \* extract_json_from_response has returned
    textDone,     \* extract_json_from_text has returned
    messages,     \* run_gemini_simulation: the message history
    step,         \* run_gemini_simulation: the step counter
    rpc,          \* run_gemini_simulation: "loop", "returned", "finished", "raised"
    llmCalls,     \* number of call_llm_step calls made
    llmInput,     \* the messages the latest call_llm_step received
    searchCalls,  \* number of tools_search calls made
    visitCalls,   \* number of tools_visit calls made
    last,         \* the latest round: its decision, where it came from, its tool
    retval,       \* the value run_gemini_simulation returned
    printedMax,   \* "Max steps reached." was printed
    research_depth,        \* st.session_state.research_depth
    max_sources_per_step,  \* st.session_state.max_sources_per_step
    research_in_progress,  \* st.session_state.research_in_progress
    research_steps,        \* st.session_state.research_steps
    spc,          \* deep research: where the session is
    depth,        \* deep research: the loop variable of the rounds
    queries,      \* deep research: the queries of the current round
    query_idx,    \* deep research: the loop variable of the queries
    total_steps,  \* deep research: the computed total
    current_step, \* deep research: the progress counter
    progress,     \* deep research: the fraction last shown on the progress bar
    inflight,     \* deep research: the external calls that have not returned
    calls,        \* deep research: the calls made so far, in order
    saved,        \* deep research: the steps written by save_research
    numPages,     \* pdf2md: the number of pages pdf_to_images returned
    submitted,    \* pdf2md: the pages handed to executor.submit, in order
    queue,        \* pdf2md: the executor's work queue
    threads,      \* pdf2md: the number of worker threads of the executor
    running,      \* pdf2md: the pages whose process_single_page_vlm is executing
    finished,     \* pdf2md: the content each completed future holds
    results,      \* pdf2md: the results dict of main
    ppc,          \* pdf2md: where main is
    collected,    \* pdf2md: the keys of results in insertion order
    failed,       \* pdf2md: the pages whose request raised
    raw_full_text,  \* pdf2md: the joined OCR text
    raw_md,       \* pdf2md: the content of the file raw.md
    raw_markdown, \* pdf2md: the argument of refine_full_text_llm
    full_content, \* pdf2md: the chunks refine_full_text_llm has accumulated
    final_text,   \* pdf2md: what refine_full_text_llm returned
    refined,      \* pdf2md: how refine_full_text_llm ended
    output,       \* pdf2md: the content of the output file
    args,         \* commit_msg: the parsed flags -a, -c, -p
    cpc,          \* commit_msg: where main is
    git_calls,    \* commit_msg: the git commands executed, in order
    answer,       \* commit_msg: what the user typed at the prompt
    commit_code,  \* commit_msg: the exit code of git commit
    exit_code,    \* commit_msg: the code main exited with
    source_arg,   \* merge_codebase_context: args.source, "url", "local" or "missing"
    source,       \* merge_codebase_context: the variable source of main
    is_temp,      \* merge_codebase_context: the variable is_temp of main
    mpc,          \* merge_codebase_context: where main is
    disk,         \* merge_codebase_context: the directories that exist
    files,        \* merge_codebase_context: the files of the source, by kind
    file_idx,     \* merge_codebase_context: the files process_path has visited
    total_files,  \* merge_codebase_context: the counter of process_path
    outfile,      \* merge_codebase_context: the files written to the output
    path,         \* code_reviewer: args.path, "url", "file", "dir" or "missing"
    source_path,  \* code_reviewer: the variable source_path of read_content
    review_is_temp,  \* code_reviewer: is_temp of read_content and of main
    temp_dir,     \* code_reviewer: the variable temp_dir of main
    review_content,  \* code_reviewer: the content read, the files it holds
    vpc,          \* code_reviewer: where main is
    review_disk,  \* code_reviewer: the directories and files that exist
    review_files, \* code_reviewer: the files of the source, by kind
    read_idx,     \* code_reviewer: the files read_directory has visited
    full_answer,  \* code_reviewer: the answer stream_review has accumulated
    review,       \* code_reviewer: how stream_review ended
    report,       \* code_reviewer: the content of the report file
    store_query,  \* research_exa: the query save_research is given
    store_steps,  \* research_exa: the steps save_research is given
    research_file,  \* research_exa: the JSON document in the research file
    loaded,       \* research_exa: what load_research returned
    now,          \* research_exa: the reading of the clock
    tpc,          \* research_exa: where the saving and loading is
    session_messages,  \* GUI: st.session_state.messages
    current_convo,  \* GUI: st.session_state.current_convo
    convo_list,   \* GUI: st.session_state.convo_list
    history,      \* GUI: the files of HISTORY_DIR and their content
    gpc,          \* GUI: where the run of the page script is
    prompts,      \* GUI: the prompts submitted so far
    names_made    \* GUI: the file names generate_filename has returned

jsonVars == <<jtext, jresp, jtxt, respDone, textDone>>

reactVars == <<messages, step, rpc, llmCalls, llmInput, searchCalls, visitCalls,
               last, retval, printedMax>>

researchVars == <<research_depth, max_sources_per_step, research_in_progress,
                  research_steps, spc, depth, queries, query_idx, total_steps,
                  current_step, progress, inflight, calls, saved>>

\* what main uses after the pool
pdfTail == <<raw_full_text, raw_md, raw_markdown, full_content, final_text, refined,
            output>>

pdfVars == <<numPages, submitted, queue, threads, running, finished, results, ppc,
             collected, failed, pdfTail>>

commitVars == <<args, cpc, git_calls, answer, commit_code, exit_code>>

mergeVars == <<source_arg, source, is_temp, mpc, disk, files, file_idx, total_files,
               outfile>>

reviewVars == <<path, source_path, review_is_temp, temp_dir, review_content, vpc,
                review_disk,
                review_files, read_idx, full_answer, review, report>>

storeVars == <<store_query, store_steps, research_file, loaded, now, tpc>>

chatVars == <<session_messages, current_convo, convo_list, history, gpc, prompts,
              names_made>>

\* the command-line scripts, the research files and the chat page
scriptVars == <<commitVars, mergeVars, reviewVars, storeVars, chatVars>>

vars == <<jsonVars, reactVars, researchVars, pdfVars, scriptVars>>

\* what the actions of one program leave alone: the other programs' state
notJson == <<reactVars, researchVars, pdfVars, scriptVars>>

notReact == <<jsonVars, researchVars, pdfVars, scriptVars>>

notResearch == <<jsonVars, reactVars, pdfVars, scriptVars>>

notPdf == <<jsonVars, reactVars, researchVars, scriptVars>>

notCommit == <<jsonVars, reactVars, researchVars, pdfVars, mergeVars, reviewVars,
               storeVars, chatVars>>

notMerge == <<jsonVars, reactVars, researchVars, pdfVars, commitVars, reviewVars,
              storeVars, chatVars>>

notReview == <<jsonVars, reactVars, researchVars, pdfVars, commitVars, mergeVars,
               storeVars, chatVars>>

notStore == <<jsonVars, reactVars, researchVars, pdfVars, commitVars, mergeVars,
              reviewVars, chatVars>>

notChat == <<jsonVars, reactVars, researchVars, pdfVars, commitVars, mergeVars,
             reviewVars, storeVars>>

\* ------------------------------------------------ the extractors' inputs
\* every text over Sigma of at most MaxLen lexemes
Texts == UNION {[1..n -> Sigma] : n \in 0..MaxLen}

Prefixes == {<<>>, <<"j", " ">>}

Suffixes == {<<>>, <<" ", "j">>}

\* no fence, a bare fence, a json-tagged fence with whitespace inside
Fences == {<< <<>>, <<>> >>, << <<"F">>, <<"F">> >>, << <<"F", "j", " ">>, <<" ", "F">> >>}

Objects == {<<"{", "}">>,
            <<"{", "k:", "x", "}">>,
            <<"{", "k:", "{", "k:", "x", "}", "}">>,
            <<"{", "k:", "s}", "}">>,
            <<"{", "action:", "answer", ",", " ", "action_input:", "q", "}">>}

\* one JSON object wrapped in prose and/or in a code fence
Wrapped == {pre \o f[1] \o obj \o f[2] \o post :
              pre \in Prefixes, f \in Fences, obj \in Objects, post \in Suffixes}

Inputs == Texts \cup Wrapped

JsonIdle ==
    /\ jtext = <<>>
    /\ jresp = Nothing
    /\ jtxt = Nothing
    /\ respDone = FALSE
    /\ textDone = FALSE

InitJson ==
    /\ jtext \in Inputs
    /\ jresp = Nothing
    /\ jtxt = Nothing
    /\ respDone = FALSE
    /\ textDone = FALSE

\* a caller runs extract_json_from_response on the text
CallExtractResponse ==
    /\ ~respDone
    /\ jresp' = extract_json_from_response(jtext)
    /\ respDone' = TRUE
    /\ UNCHANGED <<jtext, jtxt, textDone, notJson>>

\* a caller runs extract_json_from_text on the text
CallExtractText ==
    /\ ~textDone
    /\ jtxt' = extract_json_from_text(jtext)
    /\ textDone' = TRUE
    /\ UNCHANGED <<jtext, jresp, respDone, notJson>>

NextJson == CallExtractResponse \/ CallExtractText

\* ------------------------------------ thinking_ReAct.run_gemini_simulation
max_steps == 7

\* Python truthiness of an extracted value: None, {} and [] are falsy
Truthy(v) == v.ok /\ v.val \notin {<<"{", "}">>, <<"[", "]">>}

IsDict(v) == v.ok /\ v.val[1] = "{"

\* dict.get(key, ""): the lexemes of the value of a top-level key of the
\* object d, scanning the members from position i; the empty string if absent
RECURSIVE Lookup(_, _, _)
Lookup(d, i, key) ==
    IF i > Len(d) \/ d[i] \notin Keys THEN <<"">>
    ELSE LET e == ValueEnd(d, i + 1)
             later == Lookup(d, e + 2, key)
         IN  IF later # <<"">> THEN later
             ELSE IF d[i] = key THEN SubSeq(d, i + 1, e)
             ELSE <<"">>

Get(v, key) == Lookup(v.val, 2, key)

\* json.dumps(decision, ensure_ascii=False): the value's characters with a
\* space after every comma and after every key's colon
RECURSIVE Spaced(_)
Spaced(d) ==
    IF d = <<>> THEN <<>>
    ELSE IF Head(d) = "," \/ Head(d) \in Keys
         THEN <<Head(d), " ">> \o Spaced(Tail(d))
         ELSE <<Head(d)>> \o Spaced(Tail(d))

json_dumps(v) == Spaced(v.val)

\* what call_llm_step can return: content and reasoning as joined text
SearchDecision == <<"{", "action:", "search", ",", "action_input:", "q", "}">>

VisitDecision == <<"{", "thought:", "t", ",", "action:", "visit", ",", "action_input:", "u", "}">>

AnswerDecision == <<"{", "action:", "answer", ",", "action_input:", "q", "}">>

FlyDecision == <<"{", "action:", "fly", "}">>

Contents == {<<>>,
             <<"j">>,
             <<"{", "}">>,
             <<"[", "x", "]">>,
             SearchDecision,
             <<"F", "j", " ">> \o VisitDecision \o <<" ", "F">>,
             <<"j", " ">> \o AnswerDecision,
             FlyDecision}

Reasonings == {<<>>, <<"j">>, <<"j", " ">> \o VisitDecision \o <<" ", "j">>}

LLMResults == [content : Contents, reasoning : Reasonings]

\* what the tools can return
SearchObservations == {"Found pages", "Search failed"}

VisitObservations == {"Full Content"}

SystemPrompt == [role |-> "system", content |-> <<"system_prompt">>]

UserQuery == [role |-> "user", content |-> <<"user_query">>]

NoRound == [decision |-> Nothing, source |-> "none", tool |-> "none", input |-> <<>>,
            observation |-> <<>>,
            result |-> [content |-> <<>>, reasoning |-> <<>>],
            content_json |-> Nothing, reasoning_json |-> Nothing]

ReactIdle ==
    /\ messages = <<>>
    /\ step = 0
    /\ rpc = "idle"
    /\ llmCalls = 0
    /\ llmInput = <<>>
    /\ searchCalls = 0
    /\ visitCalls = 0
    /\ last = NoRound
    /\ retval = <<>>
    /\ printedMax = FALSE

\* the state when the while loop is first reached
InitReact ==
    /\ messages = <<SystemPrompt, UserQuery>>
    /\ step = 0
    /\ rpc = "loop"
    /\ llmCalls = 0
    /\ llmInput = <<>>
    /\ searchCalls = 0
    /\ visitCalls = 0
    /\ last = NoRound
    /\ retval = <<>>
    /\ printedMax = FALSE

\* the decision of a round: from the content, else from the reasoning
FromContent(result) == Truthy(extract_json_from_text(result.content))

\* Decision with the reasoning trace looked at first
DecisionReasoningFirst(result) ==
    IF Truthy(extract_json_from_text(result.reasoning))
    THEN extract_json_from_text(result.reasoning)
    ELSE extract_json_from_text(result.content)

Decision(result) ==
    IF FromContent(result) THEN extract_json_from_text(result.content)
    ELSE extract_json_from_text(result.reasoning)

\* Dispatch with the visit branch calling the search tool
DispatchVisitAsSearch(action) ==
    IF action = <<"search">> \/ action = <<"visit">> THEN "tools_search"
    ELSE IF action = <<"answer">> THEN "return"
    ELSE "unknown"

\* Dispatch without the answer branch: an answer falls through to the else
DispatchNoAnswer(action) ==
    IF action = <<"search">> THEN "tools_search"
    ELSE IF action = <<"visit">> THEN "tools_visit"
    ELSE "unknown"

\* the if/elif chain on the decision's action
Dispatch(action) ==
    IF action = <<"search">> THEN "tools_search"
    ELSE IF action = <<"visit">> THEN "tools_visit"
    ELSE IF action = <<"answer">> THEN "return"
    ELSE "unknown"

\* the while condition, step += 1 and the call of call_llm_step(messages)
EnterRound ==
    /\ rpc = "loop"
    /\ step < max_steps
    /\ step' = step + 1
    /\ llmCalls' = llmCalls + 1
    /\ llmInput' = messages

\* Appended with the observation appended before the decision
AppendedSwapped(decision, action, observation) ==
    messages \o
      <<[role |-> "user",
         content |-> <<"Observation from ">> \o action \o <<":\n">> \o observation],
        [role |-> "assistant", content |-> json_dumps(decision)]>>

\* the two appends that close a round
Appended(decision, action, observation) ==
    messages \o
      <<[role |-> "assistant", content |-> json_dumps(decision)],
        [role |-> "user",
         content |-> <<"Observation from ">> \o action \o <<":\n">> \o observation]>>

\* what one round computes from the LLM result before it acts (the lines
\* from the emptiness test to the reading of action and action_input)
RoundOf(result) ==
    LET decision == Decision(result)
        isDict == Truthy(decision) /\ IsDict(decision)
    IN  [empty |-> result.content = <<>> /\ result.reasoning = <<>>,
         decision |-> decision,
         source |-> IF FromContent(result) THEN "content" ELSE "reasoning",
         truthy |-> Truthy(decision),
         isDict |-> isDict,
         action |-> IF isDict THEN Get(decision, "action:") ELSE <<>>,
         action_input |-> IF isDict THEN Get(decision, "action_input:") ELSE <<>>,
         result |-> result,
         content_json |-> extract_json_from_text(result.content),
         reasoning_json |-> extract_json_from_text(result.reasoning)]

\* the rounds the LLM results can produce
Rounds == {RoundOf(result) : result \in LLMResults}

\* the record of a round: the tool it called, on what, and the observation
Done(r, tool, observation) ==
    [decision |-> r.decision, source |-> r.source, tool |-> tool,
     input |-> IF tool = "none" THEN <<>> ELSE r.action_input,
     observation |-> observation,
     result |-> r.result,
     content_json |-> r.content_json,
     reasoning_json |-> r.reasoning_json]

\* a round whose LLM result is empty: break
RoundEmpty ==
    /\ EnterRound
    /\ \E r \in Rounds :
        /\ r.empty
        /\ last' = [NoRound EXCEPT !.result = r.result]
    /\ rpc' = "finished"
    /\ printedMax' = TRUE
    /\ UNCHANGED <<messages, searchCalls, visitCalls, retval, notReact>>

\* RoundParseFailed with the failed round retried without counting the step
RoundParseFailedRetried ==
    /\ rpc = "loop"
    /\ step < max_steps
    /\ step' = step
    /\ llmCalls' = llmCalls + 1
    /\ llmInput' = messages
    /\ \E r \in Rounds :
        /\ ~r.empty
        /\ ~r.truthy
        /\ last' = Done(r, "none", <<>>)
    /\ messages' = Append(messages,
          [role |-> "user",
           content |-> <<"Error: No valid JSON found. Please output ONLY JSON.">>])
    /\ UNCHANGED <<rpc, searchCalls, visitCalls, retval, printedMax, notReact>>

\* RoundParseFailed with the model's output appended before the error message
RoundParseFailedEchoed ==
    /\ EnterRound
    /\ \E r \in Rounds :
        /\ ~r.empty
        /\ ~r.truthy
        /\ last' = Done(r, "none", <<>>)
        /\ messages' = messages \o
              <<[role |-> "assistant", content |-> r.result.content],
                [role |-> "user",
                 content |-> <<"Error: No valid JSON found. Please output ONLY JSON.">>]>>
    /\ UNCHANGED <<rpc, searchCalls, visitCalls, retval, printedMax, notReact>>

\* a round without a decision: the error message is appended, continue
RoundParseFailed ==
    /\ EnterRound
    /\ \E r \in Rounds :
        /\ ~r.empty
        /\ ~r.truthy
        /\ last' = Done(r, "none", <<>>)
    /\ messages' = Append(messages,
          [role |-> "user",
           content |-> <<"Error: No valid JSON found. Please output ONLY JSON.">>])
    /\ UNCHANGED <<rpc, searchCalls, visitCalls, retval, printedMax, notReact>>

\* a round whose decision is not a dict: decision.get raises AttributeError
RoundRaises ==
    /\ EnterRound
    /\ \E r \in Rounds :
        /\ ~r.empty
        /\ r.truthy
        /\ ~r.isDict
        /\ last' = Done(r, "none", <<>>)
    /\ rpc' = "raised"
    /\ UNCHANGED <<messages, searchCalls, visitCalls, retval, printedMax, notReact>>

\* a round that dispatches on the decision's action
RoundDecided(tool) ==
    /\ EnterRound
    /\ \E r \in Rounds :
        /\ ~r.empty
        /\ r.truthy
        /\ r.isDict
        /\ Dispatch(r.action) = tool
        /\ \/ /\ tool = "tools_search"
              /\ \E o \in SearchObservations :
                   /\ last' = Done(r, tool, <<o>>)
                   /\ messages' = Appended(r.decision, r.action, <<o>>)
              /\ searchCalls' = searchCalls + 1
              /\ UNCHANGED <<visitCalls, rpc, retval>>
           \/ /\ tool = "tools_visit"
              /\ \E o \in VisitObservations :
                   /\ last' = Done(r, tool, <<o>>)
                   /\ messages' = Appended(r.decision, r.action, <<o>>)
              /\ visitCalls' = visitCalls + 1
              /\ UNCHANGED <<searchCalls, rpc, retval>>
           \/ /\ tool = "return"
              /\ last' = Done(r, "none", <<>>)
              /\ retval' = r.action_input
              /\ rpc' = "returned"
              /\ UNCHANGED <<messages, searchCalls, visitCalls>>
           \/ /\ tool = "unknown"
              /\ last' = Done(r, "none", <<"Unknown action: ">> \o r.action)
              /\ messages' = Appended(r.decision, r.action,
                                      <<"Unknown action: ">> \o r.action)
              /\ UNCHANGED <<searchCalls, visitCalls, rpc, retval>>
    /\ UNCHANGED <<printedMax, notReact>>

RoundSearch == RoundDecided("tools_search")

RoundVisit == RoundDecided("tools_visit")

RoundAnswer == RoundDecided("return")

RoundUnknown == RoundDecided("unknown")

\* the while condition fails: "Max steps reached." and the function ends
LoopExhausted ==
    /\ rpc = "loop"
    /\ ~(step < max_steps)
    /\ rpc' = "finished"
    /\ printedMax' = TRUE
    /\ UNCHANGED <<messages, step, llmCalls, llmInput, searchCalls, visitCalls,
                   last, retval, notReact>>

NextReact ==
    \/ RoundEmpty
    \/ RoundParseFailed
    \/ RoundRaises
    \/ RoundSearch
    \/ RoundVisit
    \/ RoundAnswer
    \/ RoundUnknown
    \/ LoopExhausted

\* ------------------------------------------ research_exa: the session
\* most rounds of a session in the model (the sidebar offers 1 to 5)
MaxDepth == 2

\* most queries generate_search_queries returns in the model
MaxQueries == 5

\* the research depths the model draws from
Depths == 1..MaxDepth

\* the "sources per step" choices the model draws from (of 3, 5, 7, 10)
SourceChoices == {3, 5}

\* the main query, and the i-th generated query of round d
MainQuery == [round |-> 0, number |-> 0]

Query(d, i) == [round |-> d, number |-> i]

\* generate_search_queries returns [main_query] when the request or the
\* parsing fails, else whatever list the model wrote under "queries"
QueryLists(d) ==
    {<<MainQuery>>} \cup {[i \in 1..n |-> Query(d, i)] : n \in 0..MaxQueries}

ResearchStep(query, step_type) == [query |-> query, step_type |-> step_type]

SynthesisQuery == [round |-> 0, number |-> -1]

Call(name, d, q) == [name |-> name, round |-> d, query |-> q]

NoQuery == [round |-> -1, number |-> -1]

ResearchIdle ==
    /\ research_depth = 3
    /\ max_sources_per_step = 5
    /\ research_in_progress = FALSE
    /\ research_steps = <<>>
    /\ spc = "idle"
    /\ depth = 0
    /\ queries = <<>>
    /\ query_idx = 0
    /\ total_steps = 0
    /\ current_step = 0
    /\ progress = <<0, 1>>
    /\ inflight = {}
    /\ calls = <<>>
    /\ saved = <<>>

\* the rerun after the start button: the session block is entered with the
\* steps reset, and total_steps is computed
InitResearch ==
    /\ research_depth \in Depths
    /\ max_sources_per_step \in SourceChoices
    /\ research_in_progress = TRUE
    /\ research_steps = <<>>
    /\ spc = "round"
    /\ depth = 0
    /\ queries = <<>>
    /\ query_idx = 0
    /\ total_steps = research_depth * max_sources_per_step + 1
    /\ current_step = 0
    /\ progress = <<0, 1>>
    /\ inflight = {}
    /\ calls = <<>>
    /\ saved = <<>>

\* ProgressValue without the cap
ProgressValueUncapped(cur, total) == <<cur, total>>

\* min(current_step / total_steps, 0.95) as a fraction
ProgressValue(cur, total) ==
    IF cur * 100 <= 95 * total THEN <<cur, total>> ELSE <<95, 100>>

\* AfterQueries with the synthesis reached from inside the rounds' loop
AfterQueriesFirstRound(d) == "synthesis"

\* what follows the end of a round's query loop
AfterQueries(d) == IF d + 1 < research_depth THEN "round" ELSE "synthesis"

\* for depth in range(research_depth): generate_search_queries(.., depth + 1)
GenerateQueries ==
    /\ spc = "round"
    /\ depth < research_depth
    /\ \E qs \in QueryLists(depth + 1) :
        /\ queries' = qs
        /\ IF qs = <<>>
           THEN /\ spc' = AfterQueries(depth)
                /\ depth' = depth + 1
           ELSE /\ spc' = "search"
                /\ depth' = depth
    /\ query_idx' = 0
    /\ calls' = Append(calls, Call("generate_search_queries", depth + 1, NoQuery))
    /\ UNCHANGED <<notResearch, research_depth, max_sources_per_step, research_in_progress,
                   research_steps, total_steps, current_step, progress, inflight, saved>>

\* search_with_exa(query, ..) is called
StartSearch ==
    /\ spc = "search"
    /\ inflight' = inflight \cup {"search_with_exa"}
    /\ calls' = Append(calls, Call("search_with_exa", depth + 1, queries[query_idx + 1]))
    /\ spc' = "searching"
    /\ UNCHANGED <<notResearch, research_depth, max_sources_per_step, research_in_progress,
                   research_steps, depth, queries, query_idx, total_steps,
                   current_step, progress, saved>>

\* search_with_exa returns and analyze_sources_streaming is called
StartAnalysis ==
    /\ spc = "searching"
    /\ inflight' = (inflight \ {"search_with_exa"}) \cup {"analyze_sources_streaming"}
    /\ calls' = Append(calls,
                       Call("analyze_sources_streaming", depth + 1, queries[query_idx + 1]))
    /\ spc' = "analysing"
    /\ UNCHANGED <<notResearch, research_depth, max_sources_per_step, research_in_progress,
                   research_steps, depth, queries, query_idx, total_steps,
                   current_step, progress, saved>>

\* the analysis returns: progress update, the step is appended, next query
FinishAnalysis ==
    /\ spc = "analysing"
    /\ inflight' = inflight \ {"analyze_sources_streaming"}
    /\ current_step' = current_step + 1
    /\ progress' = ProgressValue(current_step + 1, total_steps)
    /\ research_steps' = Append(research_steps,
                                ResearchStep(queries[query_idx + 1], "search_analysis"))
    /\ IF query_idx + 1 < Len(queries)
       THEN /\ query_idx' = query_idx + 1
            /\ spc' = "search"
            /\ depth' = depth
       ELSE /\ query_idx' = query_idx
            /\ spc' = AfterQueries(depth)
            /\ depth' = depth + 1
    /\ UNCHANGED <<notResearch, research_depth, max_sources_per_step, research_in_progress,
                   queries, total_steps, calls, saved>>

\* progress 0.96 and synthesize_research_streaming is called
StartSynthesis ==
    /\ spc = "synthesis"
    /\ progress' = <<96, 100>>
    /\ inflight' = inflight \cup {"synthesize_research_streaming"}
    /\ calls' = Append(calls, Call("synthesize_research_streaming", 0, NoQuery))
    /\ spc' = "synthesising"
    /\ UNCHANGED <<notResearch, research_depth, max_sources_per_step, research_in_progress,
                   research_steps, depth, queries, query_idx, total_steps,
                   current_step, saved>>

\* the synthesis returns and its step is appended
FinishSynthesis ==
    /\ spc = "synthesising"
    /\ inflight' = inflight \ {"synthesize_research_streaming"}
    /\ research_steps' = Append(research_steps, ResearchStep(SynthesisQuery, "synthesis"))
    /\ spc' = "save"
    /\ UNCHANGED <<notResearch, research_depth, max_sources_per_step, research_in_progress,
                   depth, queries, query_idx, total_steps, current_step, progress,
                   calls, saved>>

\* save_research writes the file; progress 1.0; the session is over
SaveResearch ==
    /\ spc = "save"
    /\ calls' = Append(calls, Call("save_research", 0, NoQuery))
    /\ saved' = research_steps
    /\ progress' = <<1, 1>>
    /\ research_in_progress' = FALSE
    /\ spc' = "done"
    /\ UNCHANGED <<notResearch, research_depth, max_sources_per_step, research_steps, depth,
                   queries, query_idx, total_steps, current_step, inflight>>

\* save_research raises (the file cannot be written): the except branch
SaveRaises ==
    /\ spc = "save"
    /\ calls' = Append(calls, Call("save_research", 0, NoQuery))
    /\ research_in_progress' = FALSE
    /\ spc' = "failed"
    /\ UNCHANGED <<notResearch, research_depth, max_sources_per_step, research_steps, depth,
                   queries, query_idx, total_steps, current_step, progress,
                   inflight, saved>>

NextResearch ==
    \/ GenerateQueries
    \/ StartSearch
    \/ StartAnalysis
    \/ FinishAnalysis
    \/ StartSynthesis
    \/ FinishSynthesis
    \/ SaveResearch
    \/ SaveRaises

\* ------------------------------------------------------- pdf2md.main
\* most pages of a PDF in the model
MaxPages == 6

\* ThreadPoolExecutor(max_workers=5)
max_workers == 5

\* what process_single_page_vlm returns for page p: the model's Markdown of
\* the page, or the empty string when the request raised
PageMarkdown(p) == <<p>>

PageContents(p) == {PageMarkdown(p), <<>>}

\* the empty dict
EmptyDict == [p \in {} |-> <<>>]

\* a file that does not exist, a variable that is not assigned
Absent == <<-1>>

\* "\n\n", the separator of the join (page contents are page numbers, so the
\* separator is a number that is no page)
Separator == <<0>>

\* most pages of a PDF when main is followed to the output file
MaxJoinPages == 4

\* most chunks of a refinement stream in the model
MaxChunks == 2

\* the text of one chunk of the refinement stream
Chunks == {<<-2>>, <<-3>>}

PdfTailInit ==
    /\ raw_full_text = Absent
    /\ raw_md = Absent
    /\ raw_markdown = Absent
    /\ full_content = Absent
    /\ final_text = Absent
    /\ refined = "not called"
    /\ output = Absent

PdfIdle ==
    /\ numPages = 0
    /\ submitted = <<>>
    /\ queue = <<>>
    /\ threads = 0
    /\ running = {}
    /\ finished = EmptyDict
    /\ results = EmptyDict
    /\ ppc = "idle"
    /\ collected = <<>>
    /\ failed = {}
    /\ PdfTailInit

\* main after pdf_to_images: the executor is created, nothing is submitted
InitPdf ==
    /\ numPages \in 0..MaxPages
    /\ submitted = <<>>
    /\ queue = <<>>
    /\ threads = 0
    /\ running = {}
    /\ finished = EmptyDict
    /\ results = EmptyDict
    /\ ppc = "pool"
    /\ collected = <<>>
    /\ failed = {}
    /\ PdfTailInit

AllSubmitted == Len(submitted) = numPages

\* executor.submit(process_single_page_vlm, p, img) for the next page of
\* images: the item is queued, and a worker thread is added when no worker
\* is free and fewer than max_workers exist
SubmitPage ==
    /\ ppc = "pool"
    /\ ~AllSubmitted
    /\ LET p == Len(submitted) + 1
       IN  /\ submitted' = Append(submitted, p)
           /\ queue' = Append(queue, p)
    /\ threads' = IF threads - Cardinality(running) > Len(queue) THEN threads
                  ELSE IF threads < max_workers THEN threads + 1
                  ELSE threads
    /\ UNCHANGED <<notPdf, numPages, running, finished, results, ppc, collected, failed,
                   pdfTail>>

\* StartPage with one thread started per work item, without the limit
StartPageUnbounded ==
    /\ queue # <<>>
    /\ running' = running \cup {Head(queue)}
    /\ queue' = Tail(queue)
    /\ UNCHANGED <<notPdf, numPages, submitted, threads, finished, results, ppc,
                   collected, failed, pdfTail>>

\* a free worker thread takes the next work item and calls
\* process_single_page_vlm
StartPage ==
    /\ queue # <<>>
    /\ Cardinality(running) < threads
    /\ running' = running \cup {Head(queue)}
    /\ queue' = Tail(queue)
    /\ UNCHANGED <<notPdf, numPages, submitted, threads, finished, results, ppc,
                   collected, failed, pdfTail>>

\* process_single_page_vlm returns (page_num, content); the future completes.
\* The request either returns the page's Markdown or raises, and then the
\* except branch returns the empty string
FinishPage ==
    /\ \E p \in running :
        /\ running' = running \ {p}
        /\ \E content \in PageContents(p) :
             /\ finished' = (p :> content) @@ finished
             /\ failed' = IF content = PageMarkdown(p) THEN failed ELSE failed \cup {p}
    /\ UNCHANGED <<notPdf, numPages, submitted, queue, threads, results, ppc, collected,
                   pdfTail>>

\* CollectResult with the content stored under the order of arrival
CollectResultByArrival ==
    /\ ppc = "pool"
    /\ AllSubmitted
    /\ \E p \in DOMAIN finished \ {collected[i] : i \in 1..Len(collected)} :
        /\ results' = ((Len(collected) + 1) :> finished[p]) @@ results
        /\ collected' = Append(collected, p)
    /\ UNCHANGED <<notPdf, numPages, submitted, queue, threads, running, finished, ppc,
                   failed, pdfTail>>

\* one turn of the as_completed loop: results[page_num] = content
CollectResult ==
    /\ ppc = "pool"
    /\ AllSubmitted
    /\ \E p \in DOMAIN finished \ DOMAIN results :
        /\ results' = (p :> finished[p]) @@ results
        /\ collected' = Append(collected, p)
    /\ UNCHANGED <<notPdf, numPages, submitted, queue, threads, running, finished, ppc,
                   failed, pdfTail>>

\* as_completed is exhausted and the with block is left
LeavePool ==
    /\ ppc = "pool"
    /\ AllSubmitted
    /\ DOMAIN results = 1..numPages
    /\ ppc' = "joined"
    /\ UNCHANGED <<notPdf, numPages, submitted, queue, threads, running, finished, results,
                   collected, failed, pdfTail>>

\* results.keys() in the order a join without sorted() would use
insertion_order(keys) == keys

\* sorted(results.keys()): ascending, the keys of a dict are distinct
RECURSIVE sorted(_)
sorted(keys) ==
    IF keys = <<>> THEN <<>>
    ELSE LET m == Min({keys[i] : i \in 1..Len(keys)})
         IN  <<m>> \o sorted(SelectSeq(keys, LAMBDA k : k # m))

\* "\n\n".join(parts)
RECURSIVE join(_)
join(parts) ==
    IF parts = <<>> THEN <<>>
    ELSE IF Len(parts) = 1 THEN parts[1]
    ELSE parts[1] \o Separator \o join(Tail(parts))

\* sorted_pages = sorted(results.keys());
\* raw_full_text = "\n\n".join([results[p] for p in sorted_pages])
JoinPages ==
    /\ ppc = "joined"
    /\ LET sorted_pages == sorted(collected)
       IN  raw_full_text' = join([i \in 1..Len(sorted_pages) |-> results[sorted_pages[i]]])
    /\ ppc' = "raw"
    /\ UNCHANGED <<notPdf, numPages, submitted, queue, threads, running, finished, results,
                   collected, failed, raw_md, raw_markdown, full_content, final_text,
                   output, refined>>

\* with open("raw.md", "w") as f: f.write(raw_full_text)
WriteRaw ==
    /\ ppc = "raw"
    /\ raw_md' = raw_full_text
    /\ ppc' = "refine"
    /\ UNCHANGED <<notPdf, numPages, submitted, queue, threads, running, finished, results,
                   collected, failed, raw_full_text, raw_markdown, full_content,
                   final_text, output, refined>>

\* refine_full_text_llm(raw_full_text) is called and sends its request
CallRefine ==
    /\ ppc = "refine"
    /\ raw_markdown' = raw_full_text
    /\ ppc' = "request"
    /\ UNCHANGED <<notPdf, numPages, submitted, queue, threads, running, finished, results,
                   collected, failed, raw_full_text, raw_md, full_content, final_text,
                   output, refined>>

\* client.chat.completions.create returns the stream; full_content = ""
RequestReturns ==
    /\ ppc = "request"
    /\ full_content' = <<>>
    /\ ppc' = "stream"
    /\ UNCHANGED <<notPdf, numPages, submitted, queue, threads, running, finished, results,
                   collected, failed, raw_full_text, raw_md, raw_markdown, final_text,
                   output, refined>>

\* one chunk of the stream: full_content += content
StreamChunk ==
    /\ ppc = "stream"
    /\ Len(full_content) < MaxChunks
    /\ \E content \in Chunks : full_content' = full_content \o content
    /\ UNCHANGED <<notPdf, numPages, submitted, queue, threads, running, finished, results,
                   collected, failed, raw_full_text, raw_md, raw_markdown, final_text,
                   output, refined, ppc>>

\* the stream ends: return full_content
RefineReturns ==
    /\ ppc = "stream"
    /\ final_text' = full_content
    /\ refined' = "returned"
    /\ ppc' = "write"
    /\ UNCHANGED <<notPdf, numPages, submitted, queue, threads, running, finished, results,
                   collected, failed, raw_full_text, raw_md, raw_markdown, full_content,
                   output>>

\* RefineRaises returning what the stream had delivered so far
RefineRaisesPartial ==
    /\ ppc \in {"request", "stream"}
    /\ final_text' = IF ppc = "stream" THEN full_content ELSE raw_markdown
    /\ refined' = "raised"
    /\ ppc' = "write"
    /\ UNCHANGED <<notPdf, numPages, submitted, queue, threads, running, finished, results,
                   collected, failed, raw_full_text, raw_md, raw_markdown, full_content,
                   output>>

\* the request or the stream raises: except Exception: return raw_markdown
RefineRaises ==
    /\ ppc \in {"request", "stream"}
    /\ final_text' = raw_markdown
    /\ refined' = "raised"
    /\ ppc' = "write"
    /\ UNCHANGED <<notPdf, numPages, submitted, queue, threads, running, finished, results,
                   collected, failed, raw_full_text, raw_md, raw_markdown, full_content,
                   output>>

\* with open(output_path, "w") as f: f.write(final_text)
WriteOutput ==
    /\ ppc = "write"
    /\ output' = final_text
    /\ ppc' = "done"
    /\ UNCHANGED <<notPdf, numPages, submitted, queue, threads, running, finished, results,
                   collected, failed, raw_full_text, raw_md, raw_markdown, full_content,
                   final_text, refined>>

\* the executor alone: the submissions and the worker threads
NextPool ==
    \/ SubmitPage
    \/ StartPage
    \/ FinishPage

NextPdf ==
    \/ SubmitPage
    \/ StartPage
    \/ FinishPage
    \/ CollectResult
    \/ LeavePool
    \/ JoinPages
    \/ WriteRaw
    \/ CallRefine
    \/ RequestReturns
    \/ StreamChunk
    \/ RefineReturns
    \/ RefineRaises
    \/ WriteOutput

\* ------------------------------------------------------- commit_msg.main
\* str.lower on one character of an answer
LowerChar(ch) ==
    CASE ch = "Y" -> "y"
      [] ch = "E" -> "e"
      [] ch = "S" -> "s"
      [] ch = "N" -> "n"
      [] OTHER -> ch

\* str.lower
lower(s) == [i \in 1..Len(s) |-> LowerChar(s[i])]

\* what the user may type at "确认提交? [Y/n]: ", character by character
Answers == {<<>>, <<"y">>, <<"Y">>, <<"y", "e", "s">>, <<"Y", "E", "S">>,
            <<" ", "y", " ">>, <<" ">>, <<"n">>, <<"N">>, <<"y", "e">>}

\* the flags argparse produces
Flags == [all : BOOLEAN, commit : BOOLEAN, push : BOOLEAN]

\* no return code yet
NoCode == -1

CommitIdle ==
    /\ args = [all |-> FALSE, commit |-> FALSE, push |-> FALSE]
    /\ cpc = "idle"
    /\ git_calls = <<>>
    /\ answer = <<>>
    /\ commit_code = NoCode
    /\ exit_code = NoCode

\* main after parser.parse_args()
InitCommit ==
    /\ args \in Flags
    /\ cpc = "check"
    /\ git_calls = <<>>
    /\ answer = <<>>
    /\ commit_code = NoCode
    /\ exit_code = NoCode

\* sys.exit(code)
Exit(code) ==
    /\ cpc' = "exited"
    /\ exit_code' = code

\* check_git_repo(): git rev-parse --git-dir; git is missing, or the
\* directory is no repository, or it is one
CheckGitRepo ==
    /\ cpc = "check"
    /\ \E outcome \in {"no git", "no repo", "repo"} :
         IF outcome = "no git"
         THEN Exit(1) /\ UNCHANGED git_calls
         ELSE /\ git_calls' = Append(git_calls, "rev-parse")
              /\ IF outcome = "no repo" THEN Exit(1)
                 ELSE cpc' = "status" /\ UNCHANGED exit_code
    /\ UNCHANGED <<notCommit, args, answer, commit_code>>

\* status = get_status(); a clean work tree exits with 0
GetStatus ==
    /\ cpc = "status"
    /\ git_calls' = Append(git_calls, "status")
    /\ \E status \in {"", " M file"} :
         IF status = "" THEN Exit(0)
         ELSE cpc' = "diff" /\ UNCHANGED exit_code
    /\ UNCHANGED <<notCommit, args, answer, commit_code>>

\* git add -A when -a was given, then diff = get_staged_diff()
GetStagedDiff ==
    /\ cpc = "diff"
    /\ LET added == IF args.all THEN Append(git_calls, "add") ELSE git_calls
       IN  git_calls' = Append(added, "diff --cached")
    /\ \E diff \in {"", "+line"} :
         cpc' = IF diff = "" THEN "unstaged" ELSE "generate"
    /\ UNCHANGED <<notCommit, args, answer, commit_code, exit_code>>

\* nothing is staged: unstaged = get_unstaged_diff(), exit 1 or 0
GetUnstagedDiff ==
    /\ cpc = "unstaged"
    /\ git_calls' = Append(git_calls, "diff")
    /\ \E unstaged \in {"", "+line"} :
         IF unstaged = "" THEN Exit(0) ELSE Exit(1)
    /\ UNCHANGED <<notCommit, args, answer, commit_code>>

\* commit_msg = generate_commit_message(diff): the message, or sys.exit(1)
\* when the key is missing or the request fails
GenerateMessage ==
    /\ cpc = "generate"
    /\ \E ok \in BOOLEAN :
         IF ok
         THEN /\ cpc' = IF args.commit THEN "confirm" ELSE "print"
              /\ UNCHANGED exit_code
         ELSE Exit(1)
    /\ UNCHANGED <<notCommit, args, git_calls, answer, commit_code>>

\* without -c: the command is printed for the user to copy
PrintCommand ==
    /\ cpc = "print"
    /\ cpc' = "done"
    /\ UNCHANGED <<notCommit, args, git_calls, answer, commit_code, exit_code>>

\* input("确认提交? [Y/n]: ") returns what the user typed
ReadAnswer ==
    /\ cpc = "confirm"
    /\ answer' \in Answers
    /\ cpc' = "answered"
    /\ UNCHANGED <<notCommit, args, git_calls, commit_code, exit_code>>

\* input() raises EOFError: standard input is closed
InputRaises ==
    /\ cpc = "confirm"
    /\ cpc' = "raised"
    /\ UNCHANGED <<notCommit, args, git_calls, answer, commit_code, exit_code>>

\* Confirmed with every answer taken as a yes
ConfirmedAlways(typed) == TRUE

\* confirm = input(..).strip().lower(); confirm in ['', 'y', 'yes']
Confirmed(typed) == lower(Strip(typed)) \in {<<>>, <<"y">>, <<"y", "e", "s">>}

\* the confirmed branch: git commit -m commit_msg returns its exit code
Commit ==
    /\ cpc = "answered"
    /\ Confirmed(answer)
    /\ git_calls' = Append(git_calls, "commit")
    /\ \E code \in {0, 1} :
         /\ commit_code' = code
         /\ cpc' = IF code = 0 /\ args.push THEN "push" ELSE "done"
    /\ UNCHANGED <<notCommit, args, answer, exit_code>>

\* any other answer: "已取消提交"
Cancel ==
    /\ cpc = "answered"
    /\ ~Confirmed(answer)
    /\ cpc' = "done"
    /\ UNCHANGED <<notCommit, args, git_calls, answer, commit_code, exit_code>>

\* git push after a commit that returned 0, with -p
Push ==
    /\ cpc = "push"
    /\ git_calls' = Append(git_calls, "push")
    /\ cpc' = "done"
    /\ UNCHANGED <<notCommit, args, answer, commit_code, exit_code>>

NextCommit ==
    \/ CheckGitRepo
    \/ GetStatus
    \/ GetStagedDiff
    \/ GetUnstagedDiff
    \/ GenerateMessage
    \/ PrintCommand
    \/ ReadAnswer
    \/ InputRaises
    \/ Commit
    \/ Cancel
    \/ Push

\* ------------------------------------------- merge_codebase_context.main
\* most files of a source directory in the model
MaxFiles == 3

\* a file of the source: text that is merged, an empty file, a file with a
\* binary extension or an ignored name, a file that is not UTF-8
FileKinds == {"text", "empty", "ignored", "undecodable"}

FileLists == UNION {[1..n -> FileKinds] : n \in 0..MaxFiles}

MergeIdle ==
    /\ source_arg = "local"
    /\ source = "local"
    /\ is_temp = FALSE
    /\ mpc = "idle"
    /\ disk = {}
    /\ files = <<>>
    /\ file_idx = 0
    /\ total_files = 0
    /\ outfile = <<>>

\* main after parse_args: source = args.source, is_temp = False.  A local
\* directory the user names exists on disk unless the path is wrong
InitMerge ==
    /\ source_arg \in {"url", "local", "missing"}
    /\ source = source_arg
    /\ is_temp = FALSE
    /\ mpc = "start"
    /\ disk = IF source_arg = "local" THEN {"local"} ELSE {}
    /\ files \in IF source_arg = "missing" THEN {<<>>} ELSE FileLists
    /\ file_idx = 0
    /\ total_files = 0
    /\ outfile = <<>>

\* source is a URL: source = clone_repo(source); is_temp = True.
\* clone_repo makes the temporary directory, then git clone succeeds, or
\* fails (CalledProcessError: the directory is removed, None is returned and
\* main returns), or git cannot be started (FileNotFoundError, which
\* clone_repo does not catch and main does not either)
CloneRepo ==
    /\ mpc = "start"
    /\ source_arg = "url"
    /\ \E outcome \in {"cloned", "CalledProcessError", "FileNotFoundError"} :
         CASE outcome = "cloned" ->
                /\ disk' = disk \cup {"tmp"}
                /\ source' = "tmp"
                /\ is_temp' = TRUE
                /\ mpc' = "exists"
           [] outcome = "CalledProcessError" ->
                /\ disk' = (disk \cup {"tmp"}) \ {"tmp"}
                /\ source' = "None"
                /\ is_temp' = TRUE
                /\ mpc' = "returned"
           [] outcome = "FileNotFoundError" ->
                /\ disk' = disk \cup {"tmp"}
                /\ mpc' = "raised"
                /\ UNCHANGED <<source, is_temp>>
    /\ UNCHANGED <<notMerge, source_arg, files, file_idx, total_files, outfile>>

\* if not os.path.exists(source): return
CheckPath ==
    /\ \/ mpc = "exists"
       \/ mpc = "start" /\ source_arg # "url"
    /\ mpc' = IF source \in disk THEN "process" ELSE "returned"
    /\ UNCHANGED <<notMerge, source_arg, source, is_temp, disk, files, file_idx,
                   total_files, outfile>>

\* process_path opens the output file, which may raise
OpenOutput ==
    /\ mpc = "process"
    /\ \E opened \in BOOLEAN : mpc' = IF opened THEN "walk" ELSE "failed"
    /\ UNCHANGED <<notMerge, source_arg, source, is_temp, disk, files, file_idx,
                   total_files, outfile>>

\* one file of os.walk: only a non-empty text file is written and counted
ProcessFile ==
    /\ mpc = "walk"
    /\ file_idx < Len(files)
    /\ file_idx' = file_idx + 1
    /\ IF files[file_idx + 1] = "text"
       THEN /\ outfile' = Append(outfile, file_idx + 1)
            /\ total_files' = total_files + 1
       ELSE UNCHANGED <<outfile, total_files>>
    /\ UNCHANGED <<notMerge, source_arg, source, is_temp, mpc, disk, files>>

\* the walk is over: return total_files
ProcessReturns ==
    /\ mpc = "walk"
    /\ file_idx = Len(files)
    /\ mpc' = "succeeded"
    /\ UNCHANGED <<notMerge, source_arg, source, is_temp, disk, files, file_idx,
                   total_files, outfile>>

\* finally: if is_temp and os.path.exists(source): shutil.rmtree(source)
Cleanup ==
    /\ mpc \in {"succeeded", "failed"}
    /\ disk' = IF is_temp /\ source \in disk THEN disk \ {source} ELSE disk
    /\ mpc' = IF mpc = "succeeded" THEN "returned" ELSE "raised"
    /\ UNCHANGED <<notMerge, source_arg, source, is_temp, files, file_idx, total_files,
                   outfile>>

NextMerge ==
    \/ CloneRepo
    \/ CheckPath
    \/ OpenOutput
    \/ ProcessFile
    \/ ProcessReturns
    \/ Cleanup

\* ------------------------------------------------------ code_reviewer.main
\* what a path that is one file can be
SingleFiles == {<<"text">>, <<"empty">>, <<"undecodable">>}

ReviewLocals ==
    /\ review_is_temp = FALSE
    /\ temp_dir = "None"
    /\ review_content = Absent
    /\ read_idx = 0
    /\ full_answer = <<>>
    /\ review = "not called"
    /\ report = Absent

ReviewIdle ==
    /\ path = "missing"
    /\ source_path = "missing"
    /\ vpc = "idle"
    /\ review_disk = {}
    /\ review_files = <<>>
    /\ ReviewLocals

\* main after parse_args
InitReview ==
    /\ path \in {"url", "file", "dir", "missing"}
    /\ source_path = path
    /\ vpc = "key"
    /\ review_disk = IF path \in {"file", "dir"} THEN {path} ELSE {}
    /\ review_files \in CASE path = "missing" -> {<<>>}
                          [] path = "file" -> SingleFiles
                          [] OTHER -> FileLists
    /\ ReviewLocals

\* if not os.getenv('SILICONFLOW_API_KEY'): sys.exit(1)
CheckApiKey ==
    /\ vpc = "key"
    /\ \E key \in BOOLEAN : vpc' = IF key THEN "read" ELSE "exited"
    /\ UNCHANGED <<notReview, path, source_path, review_is_temp, temp_dir, review_content,
                   review_disk, review_files, read_idx, full_answer, review, report>>

\* read_content with a URL: source_path = clone_repo(path); is_temp = True.
\* git clone succeeds, or fails (CalledProcessError: the directory is
\* removed and read_content returns None, False), or git cannot be started
\* (FileNotFoundError, which nothing catches)
ReviewClone ==
    /\ vpc = "read"
    /\ path = "url"
    /\ \E outcome \in {"cloned", "CalledProcessError", "FileNotFoundError"} :
         CASE outcome = "cloned" ->
                /\ review_disk' = review_disk \cup {"tmp"}
                /\ source_path' = "tmp"
                /\ review_is_temp' = TRUE
                /\ vpc' = "exists"
                /\ UNCHANGED review_content
           [] outcome = "CalledProcessError" ->
                /\ review_disk' = (review_disk \cup {"tmp"}) \ {"tmp"}
                /\ source_path' = "None"
                /\ review_is_temp' = FALSE
                /\ review_content' = Absent
                /\ vpc' = "content"
           [] outcome = "FileNotFoundError" ->
                /\ review_disk' = review_disk \cup {"tmp"}
                /\ vpc' = "raised"
                /\ UNCHANGED <<source_path, review_is_temp, review_content>>
    /\ UNCHANGED <<notReview, path, temp_dir, review_files, read_idx, full_answer, review,
                   report>>

\* if not os.path.exists(source_path): return None, is_temp; else the path
\* is read as one file (read_single_file: None when it cannot be decoded) or
\* as a directory
CheckSourcePath ==
    /\ \/ vpc = "exists"
       \/ vpc = "read" /\ path # "url"
    /\ IF source_path \notin review_disk
       THEN review_content' = Absent /\ vpc' = "content"
       ELSE IF path = "file"
       THEN /\ review_content' = IF review_files[1] = "undecodable" THEN Absent ELSE <<1>>
            /\ vpc' = "content"
       ELSE review_content' = <<>> /\ vpc' = "walk"
    /\ UNCHANGED <<notReview, path, source_path, review_is_temp, temp_dir, review_disk,
                   review_files, read_idx, full_answer, review, report>>

\* read_directory, one file of os.walk: only a non-empty text file is added
ReadFile ==
    /\ vpc = "walk"
    /\ read_idx < Len(review_files)
    /\ read_idx' = read_idx + 1
    /\ review_content' = IF review_files[read_idx + 1] = "text"
                  THEN Append(review_content, read_idx + 1)
                  ELSE review_content
    /\ UNCHANGED <<notReview, path, source_path, review_is_temp, temp_dir, vpc,
                   review_disk, review_files, full_answer, review, report>>

\* read_directory returns "\n\n".join(contents)
ReadDirectoryReturns ==
    /\ vpc = "walk"
    /\ read_idx = Len(review_files)
    /\ vpc' = "content"
    /\ UNCHANGED <<notReview, path, source_path, review_is_temp, temp_dir, review_content,
                   review_disk, review_files, read_idx, full_answer, review, report>>

\* temp_dir = args.path if is_temp else None; if not content:
\* sys.exit(1)
CheckContent ==
    /\ vpc = "content"
    /\ temp_dir' = IF review_is_temp THEN path ELSE "None"
    /\ vpc' = IF review_content \in {Absent, <<>>} THEN "exited" ELSE "request"
    /\ UNCHANGED <<notReview, path, source_path, review_is_temp, review_content, review_disk,
                   review_files, read_idx, full_answer, review, report>>

\* stream_review sends the request: it answers, or raises a
\* RequestException (sys.exit(1)), or raises something else
SendReview ==
    /\ vpc = "request"
    /\ \E outcome \in {"answers", "RequestException", "other"} :
         CASE outcome = "answers" ->
                vpc' = "stream" /\ review' = "streaming"
           [] outcome = "RequestException" ->
                vpc' = "finally" /\ review' = "exit"
           [] outcome = "other" ->
                vpc' = "finally" /\ review' = "raised"
    /\ UNCHANGED <<notReview, path, source_path, review_is_temp, temp_dir, review_content,
                   review_disk, review_files, read_idx, full_answer, report>>

\* one line of the stream with a content piece: full_answer += content_piece
ReviewChunk ==
    /\ vpc = "stream"
    /\ Len(full_answer) < MaxChunks
    /\ \E piece \in Chunks : full_answer' = full_answer \o piece
    /\ UNCHANGED <<notReview, path, source_path, review_is_temp, temp_dir, review_content, vpc,
                   review_disk, review_files, read_idx, review, report>>

\* the stream breaks with a RequestException: sys.exit(1)
StreamRaises ==
    /\ vpc = "stream"
    /\ vpc' = "finally"
    /\ review' = "exit"
    /\ UNCHANGED <<notReview, path, source_path, review_is_temp, temp_dir, review_content,
                   review_disk, review_files, read_idx, full_answer, report>>

\* the stream ends: the report is written and stream_review returns
SaveReview ==
    /\ vpc = "stream"
    /\ report' = full_answer
    /\ vpc' = "finally"
    /\ review' = "returned"
    /\ UNCHANGED <<notReview, path, source_path, review_is_temp, temp_dir, review_content,
                   review_disk, review_files, read_idx, full_answer>>

\* finally: if is_temp and temp_dir and args.path.startswith("http"): pass
ReviewFinally ==
    /\ vpc = "finally"
    /\ vpc' = CASE review = "returned" -> "returned"
                 [] review = "exit" -> "exited"
                 [] OTHER -> "raised"
    /\ UNCHANGED <<notReview, path, source_path, review_is_temp, temp_dir, review_content,
                   review_disk, review_files, read_idx, full_answer, review, report>>

NextReview ==
    \/ CheckApiKey
    \/ ReviewClone
    \/ CheckSourcePath
    \/ ReadFile
    \/ ReadDirectoryReturns
    \/ CheckContent
    \/ SendReview
    \/ ReviewChunk
    \/ StreamRaises
    \/ SaveReview
    \/ ReviewFinally

\* ------------------------------- research_exa: save_research / load_research
\* most steps of a research in the model
MaxSavedSteps == 2

\* the latest reading of the clock in the model
MaxClock == 2

\* Python values: str, NoneType, float, list and dict (keys in insertion order)
PyValue(t, s, n, keys, items) == [t |-> t, s |-> s, n |-> n, keys |-> keys, items |-> items]

PyStr(s) == PyValue("str", s, 0, <<>>, <<>>)

PyNone == PyValue("NoneType", "", 0, <<>>, <<>>)

PyFloat(n) == PyValue("float", "", n, <<>>, <<>>)

PyList(items) == PyValue("list", "", 0, <<>>, items)

PyDict(keys, items) == PyValue("dict", "", 0, keys, items)

\* datetime.now().isoformat() when the clock reads n
isoformat(n) == PyValue("str", "isoformat", n, <<>>, <<>>)

\* bool(v) of Python
PyTruthy(v) ==
    CASE v.t = "str" -> v.s # ""
      [] v.t = "NoneType" -> FALSE
      [] v.t = "float" -> v.n # 0
      [] OTHER -> v.items # <<>>

\* d.get(key, default) and d[key] (a missing key of d[key] raises KeyError)
HasKey(d, key) == \E i \in DOMAIN d.keys : d.keys[i] = key

dict_get(d, key, default) ==
    IF HasKey(d, key)
    THEN d.items[CHOOSE i \in DOMAIN d.keys : d.keys[i] = key]
    ELSE default

\* json.dump: the JSON document of a Python value; a list and a tuple are
\* both written as an array, None as null
RECURSIVE json_dump(_)
json_dump(v) ==
    CASE v.t = "str" -> [v EXCEPT !.t = "string"]
      [] v.t = "NoneType" -> [v EXCEPT !.t = "null"]
      [] v.t = "float" -> [v EXCEPT !.t = "number"]
      [] v.t \in {"list", "tuple"} ->
           [v EXCEPT !.t = "array",
                     !.items = [i \in DOMAIN v.items |-> json_dump(v.items[i])]]
      [] OTHER ->
           [v EXCEPT !.t = "object",
                     !.items = [i \in DOMAIN v.items |-> json_dump(v.items[i])]]

\* json.load: the Python value of a JSON document; an array is read as a list
RECURSIVE json_load(_)
json_load(j) ==
    CASE j.t = "string" -> [j EXCEPT !.t = "str"]
      [] j.t = "null" -> [j EXCEPT !.t = "NoneType"]
      [] j.t = "number" -> [j EXCEPT !.t = "float"]
      [] j.t = "array" ->
           [j EXCEPT !.t = "list",
                     !.items = [i \in DOMAIN j.items |-> json_load(j.items[i])]]
      [] OTHER ->
           [j EXCEPT !.t = "dict",
                     !.items = [i \in DOMAIN j.items |-> json_load(j.items[i])]]

\* ResearchStep.__init__ when the clock reads n
ResearchStep_init(query, step_type, sources, analysis, reasoning, n) ==
    [query |-> query,
     step_type |-> step_type,
     sources |-> IF PyTruthy(sources) THEN sources ELSE PyList(<<>>),
     analysis |-> analysis,
     reasoning |-> reasoning,
     timestamp |-> isoformat(n)]

\* one entry of the list search_with_exa returns
Source(title, url, content, highlights, published_date, score) ==
    PyDict(<<"title", "url", "content", "highlights", "published_date", "score">>,
           <<title, url, content, highlights, published_date, score>>)

\* the lists search_with_exa returns in the model: nothing found (or the
\* search failed), one result, two results of which one has no title, no
\* text and no date
SourceLists ==
    LET full == Source(PyStr("title"), PyStr("url"), PyStr("text"), PyList(<<>>),
                       PyStr("2024-05-01"), PyFloat(37))
        bare == Source(PyNone, PyStr("url2"), PyStr(""),
                       PyList(<<PyStr("h1"), PyStr("h2")>>), PyNone, PyFloat(0))
    IN  {PyList(<<>>), PyList(<<full>>), PyList(<<full, bare>>)}

\* what the analysis and the synthesis return: (analysis, reasoning)
Analyses == {<<PyStr("analysis"), PyStr("reasoning")>>,
             <<PyStr("analysis"), PyStr("")>>,
             <<PyStr("failed: e"), PyStr("")>>}

Questions == {PyStr("question"), PyStr("")}

NoDocument == PyValue("missing", "", 0, <<>>, <<>>)

NoResearch == [query |-> PyNone, steps |-> <<>>]

StoreIdle ==
    /\ store_query = PyStr("")
    /\ store_steps = <<>>
    /\ research_file = NoDocument
    /\ loaded = NoResearch
    /\ now = 0
    /\ tpc = "idle"

\* a session has a query and no steps yet
InitStore ==
    /\ store_query \in Questions
    /\ store_steps = <<>>
    /\ research_file = NoDocument
    /\ loaded = NoResearch
    /\ now = 0
    /\ tpc = "session"

\* time passes
Tick ==
    /\ tpc # "idle"
    /\ now < MaxClock
    /\ now' = now + 1
    /\ UNCHANGED <<notStore, store_query, store_steps, research_file, loaded, tpc>>

\* a search and its analysis have returned: the step is built and appended
AppendSearchStep ==
    /\ tpc = "session"
    /\ Len(store_steps) + 1 < MaxSavedSteps
    /\ \E sources \in SourceLists, a \in Analyses :
         store_steps' = Append(store_steps,
                               ResearchStep_init(PyStr("query"), PyStr("search_analysis"),
                                                 sources, a[1], a[2], now))
    /\ UNCHANGED <<notStore, store_query, research_file, loaded, now, tpc>>

\* the synthesis has returned: its step is built and appended
AppendSynthesisStep ==
    /\ tpc = "session"
    /\ \E a \in Analyses :
         store_steps' = Append(store_steps,
                               ResearchStep_init(PyStr("final synthesis"), PyStr("synthesis"),
                                                 PyList(<<>>), a[1], a[2], now))
    /\ tpc' = "save"
    /\ UNCHANGED <<notStore, store_query, research_file, loaded, now>>

\* the dict save_research builds from one step
StepData(st) ==
    PyDict(<<"query", "step_type", "analysis", "reasoning", "sources", "timestamp">>,
           <<st.query, st.step_type, st.analysis, st.reasoning, st.sources,
             st.timestamp>>)

\* save_research: the document written to the file
save_research(query, steps) ==
    json_dump(PyDict(<<"query", "timestamp", "steps">>,
                     <<query, isoformat(now),
                       PyList([i \in DOMAIN steps |-> StepData(steps[i])])>>))

\* load_research without the stored sources
load_research_NoSources(document) ==
    LET data == json_load(document)
        all == dict_get(data, "steps", PyNone).items
    IN  [query |-> dict_get(data, "query", PyNone),
         steps |-> [i \in DOMAIN all |->
                      ResearchStep_init(dict_get(all[i], "query", PyNone),
                                        dict_get(all[i], "step_type", PyNone),
                                        PyList(<<>>),
                                        dict_get(all[i], "analysis", PyStr("")),
                                        dict_get(all[i], "reasoning", PyStr("")),
                                        now)]]

\* load_research: the query and the steps rebuilt from the document
load_research(document) ==
    LET data == json_load(document)
        all == dict_get(data, "steps", PyNone).items
    IN  [query |-> dict_get(data, "query", PyNone),
         steps |-> [i \in DOMAIN all |->
                      ResearchStep_init(dict_get(all[i], "query", PyNone),
                                        dict_get(all[i], "step_type", PyNone),
                                        dict_get(all[i], "sources", PyList(<<>>)),
                                        dict_get(all[i], "analysis", PyStr("")),
                                        dict_get(all[i], "reasoning", PyStr("")),
                                        now)]]

\* the session saves its research
SaveResearchFile ==
    /\ tpc = "save"
    /\ research_file' = save_research(store_query, store_steps)
    /\ tpc' = "saved"
    /\ UNCHANGED <<notStore, store_query, store_steps, loaded, now>>

\* the sidebar button of the file: load_research reads it back
LoadResearchFile ==
    /\ tpc = "saved"
    /\ loaded' = load_research(research_file)
    /\ tpc' = "loaded"
    /\ UNCHANGED <<notStore, store_query, store_steps, research_file, now>>

NextStore ==
    \/ Tick
    \/ AppendSearchStep
    \/ AppendSynthesisStep
    \/ SaveResearchFile
    \/ LoadResearchFile

\* ------------------------------------------ GUI_openai_compatible: the page
\* most prompts submitted in one browser session in the model
MaxPrompts == 3

NoConvo == 0

\* a user message has no key "reasoning"
NoReasoning == "no key"

\* what the user submits: text alone (content is the prompt), or text with
\* uploads (content is the list of parts)
PromptKinds == {"prompt", "parts"}

\* what the stream delivers: an answer, or nothing at all
Replies == {"answer", ""}

Message(role, content, reasoning) ==
    [role |-> role, content |-> content, reasoning |-> reasoning]

\* the files of HISTORY_DIR that refresh_convo_list keeps
refresh_convo_list(dir) == DOMAIN dir

\* new_conversation, and lines 87-88 of the sidebar
NoMessages == <<>>

\* init_session on the first run of a browser session; HISTORY_DIR is empty
InitChat ==
    /\ session_messages = NoMessages
    /\ current_convo = NoConvo
    /\ convo_list = {}
    /\ history = << >>
    /\ gpc = "idle"
    /\ prompts = 0
    /\ names_made = 0

\* the page is not open
ChatIdle ==
    /\ session_messages = NoMessages
    /\ current_convo = NoConvo
    /\ convo_list = {}
    /\ history = << >>
    /\ gpc = "closed"
    /\ prompts = 0
    /\ names_made = 0

\* the button of a new conversation
NewConversation ==
    /\ gpc = "idle"
    /\ session_messages' = NoMessages
    /\ current_convo' = NoConvo
    /\ convo_list' = refresh_convo_list(history)
    /\ UNCHANGED <<notChat, history, gpc, prompts, names_made>>

\* the button of a conversation of the list: load_conversation
LoadConversation ==
    /\ gpc = "idle"
    /\ \E filename \in refresh_convo_list(history) :
         /\ session_messages' = history[filename]
         /\ current_convo' = filename
    /\ convo_list' = refresh_convo_list(history)
    /\ UNCHANGED <<notChat, history, gpc, prompts, names_made>>

\* the delete button of a conversation of the list
DeleteConversation ==
    /\ gpc = "idle"
    /\ \E filename \in refresh_convo_list(history) :
         /\ history' = [f \in DOMAIN history \ {filename} |-> history[f]]
         /\ IF current_convo = filename
            THEN /\ session_messages' = NoMessages
                 /\ current_convo' = NoConvo
            ELSE UNCHANGED <<session_messages, current_convo>>
    /\ convo_list' = refresh_convo_list(history')
    /\ UNCHANGED <<notChat, gpc, prompts, names_made>>

\* a prompt is submitted: the user message is appended and the completion
\* request is sent
SubmitPrompt ==
    /\ gpc = "idle"
    /\ prompts < MaxPrompts
    /\ prompts' = prompts + 1
    /\ convo_list' = refresh_convo_list(history)
    /\ \E content \in PromptKinds :
         session_messages' = Append(session_messages,
                                    Message("user", content, NoReasoning))
    /\ gpc' = "answering"
    /\ UNCHANGED <<notChat, current_convo, history, names_made>>

\* the stream ends: the assistant message is appended
AnswerReturns ==
    /\ gpc = "answering"
    /\ \E full_reply \in Replies, full_reasoning \in {"", "reasoning"} :
         session_messages' = Append(session_messages,
                                    Message("assistant", full_reply, full_reasoning))
    /\ gpc' = "naming"
    /\ UNCHANGED <<notChat, current_convo, convo_list, history, prompts, names_made>>

\* the request or the stream raises an Exception: the placeholder message
AnswerRaises ==
    /\ gpc = "answering"
    /\ session_messages' = Append(session_messages,
                                  Message("assistant", "failed", "error: e"))
    /\ gpc' = "naming"
    /\ UNCHANGED <<notChat, current_convo, convo_list, history, prompts, names_made>>

\* no conversation file yet: generate_filename returns the name
NameConversation ==
    /\ gpc = "naming"
    /\ current_convo = NoConvo
    /\ names_made' = names_made + 1
    /\ current_convo' = names_made + 1
    /\ gpc' = "saving"
    /\ UNCHANGED <<notChat, session_messages, convo_list, history, prompts>>

\* no conversation file yet and generate_filename raises (its own completion
\* request, or .strip() on a None content): nothing catches the exception and
\* the run of the script ends before save_conversation
NamingRaises ==
    /\ gpc = "naming"
    /\ current_convo = NoConvo
    /\ gpc' = "idle"
    /\ UNCHANGED <<notChat, session_messages, current_convo, convo_list, history, prompts,
                   names_made>>

\* the conversation has its file: save_conversation, refresh_convo_list, rerun
SaveConversation ==
    /\ gpc \in {"naming", "saving"}
    /\ current_convo # NoConvo
    /\ history' = IF session_messages # NoMessages
                  THEN [f \in DOMAIN history \cup {current_convo} |->
                          IF f = current_convo THEN session_messages ELSE history[f]]
                  ELSE history
    /\ convo_list' = refresh_convo_list(history')
    /\ gpc' = "idle"
    /\ UNCHANGED <<notChat, session_messages, current_convo, prompts, names_made>>

NextChat ==
    \/ NewConversation
    \/ LoadConversation
    \/ DeleteConversation
    \/ SubmitPrompt
    \/ AnswerReturns
    \/ AnswerRaises
    \/ NameConversation
    \/ NamingRaises
    \/ SaveConversation

\* ------------------------------------------------------- specifications
\* no command-line script is running, no research file is in use and the
\* chat page is closed
ScriptsIdle == CommitIdle /\ MergeIdle /\ ReviewIdle /\ StoreIdle /\ ChatIdle

Init == JsonIdle /\ InitReact /\ ResearchIdle /\ PdfIdle /\ ScriptsIdle

Next == NextReact

Spec == Init /\ [][Next]_vars

InitExtractors == InitJson /\ ReactIdle /\ ResearchIdle /\ PdfIdle /\ ScriptsIdle

SpecJson == InitExtractors /\ [][NextJson]_vars

InitSession == JsonIdle /\ ReactIdle /\ InitResearch /\ PdfIdle /\ ScriptsIdle

SpecResearch == InitSession /\ [][NextResearch]_vars

InitPdfMain == JsonIdle /\ ReactIdle /\ ResearchIdle /\ InitPdf /\ ScriptsIdle

\* the executor of main with PDFs of more pages than it has workers
SpecPdf == InitPdfMain /\ [][NextPool]_vars

\* the whole of main, from the pool to the output file, with PDFs of few
\* pages
InitPdfFewPages == InitPdfMain /\ numPages <= MaxJoinPages

SpecPdfMain == InitPdfFewPages /\ [][NextPdf]_vars

InitCommitMain ==
    JsonIdle /\ ReactIdle /\ ResearchIdle /\ PdfIdle /\ StoreIdle /\ ChatIdle
    /\ InitCommit /\ MergeIdle /\ ReviewIdle

SpecCommit == InitCommitMain /\ [][NextCommit]_vars

InitMergeMain ==
    JsonIdle /\ ReactIdle /\ ResearchIdle /\ PdfIdle /\ StoreIdle /\ ChatIdle
    /\ CommitIdle /\ InitMerge /\ ReviewIdle

SpecMerge == InitMergeMain /\ [][NextMerge]_vars

InitReviewMain ==
    JsonIdle /\ ReactIdle /\ ResearchIdle /\ PdfIdle /\ StoreIdle /\ ChatIdle
    /\ CommitIdle /\ MergeIdle /\ InitReview

SpecReview == InitReviewMain /\ [][NextReview]_vars

InitStoreMain ==
    JsonIdle /\ ReactIdle /\ ResearchIdle /\ PdfIdle /\ CommitIdle /\ MergeIdle
    /\ ReviewIdle /\ InitStore /\ ChatIdle

SpecStore == InitStoreMain /\ [][NextStore]_vars

InitChatMain ==
    JsonIdle /\ ReactIdle /\ ResearchIdle /\ PdfIdle /\ CommitIdle /\ MergeIdle
    /\ ReviewIdle /\ StoreIdle /\ InitChat

SpecChat == InitChatMain /\ [][NextChat]_vars

\* ------------------------------------------------------------ properties
\* a step of the ReAct loop in which call_llm_step was called
LLMCalled == llmCalls' = llmCalls + 1

\* the round just run extracted a decision that has an action (a JSON object)
Decided == Truthy(last'.decision) /\ IsDict(last'.decision)

ErrorMessage ==
    [role |-> "user",
     content |-> <<"Error: No valid JSON found. Please output ONLY JSON.">>]

\* C1: run_gemini_simulation makes at most 7 calls of call_llm_step; every
\* round (a parse failure and an unknown action included) consumes one step,
\* so the number of calls always equals the step counter, and a run that is
\* still in the loop can always go on to its end.
C1_AtMostSevenCalls ==
    /\ llmCalls <= 7
    /\ llmCalls = step
    /\ rpc = "loop" => ENABLED Next

\* a run that used all 7 steps, among them a parse failure and an unknown action
C1_Witness ==
    /\ rpc = "finished"
    /\ llmCalls = 7
    /\ \E i \in 1..Len(messages) : messages[i] = ErrorMessage
    /\ \E i \in 1..Len(messages) :
         messages[i].content = <<"Observation from ", "fly", ":\n", "Unknown action: ", "fly">>

\* C2: in a round that extracted a decision, tools_search(action_input) is
\* called exactly once iff the action is "search", tools_visit(action_input)
\* exactly once iff it is "visit", no tool for any other action; an action
\* outside search, visit, answer gives "Unknown action: <action>" as the
\* observation and the loop continues.
C2_DispatchByAction ==
    [][(LLMCalled /\ Decided) =>
        LET action == Get(last'.decision, "action:")
            action_input == Get(last'.decision, "action_input:")
        IN  /\ searchCalls' - searchCalls = (IF action = <<"search">> THEN 1 ELSE 0)
            /\ visitCalls' - visitCalls = (IF action = <<"visit">> THEN 1 ELSE 0)
            /\ last'.tool = (IF action = <<"search">> THEN "tools_search"
                             ELSE IF action = <<"visit">> THEN "tools_visit"
                             ELSE "none")
            /\ last'.tool # "none" => last'.input = action_input
            /\ action \notin {<<"search">>, <<"visit">>, <<"answer">>} =>
                 /\ last'.observation = <<"Unknown action: ">> \o action
                 /\ messages'[Len(messages')].content =
                      <<"Observation from ">> \o action \o <<":\n", "Unknown action: ">>
                        \o action
                 /\ rpc' = "loop"]_vars

\* a visit was dispatched to tools_visit, and an unknown action was observed
C2_Witness ==
    /\ last.tool = "tools_visit"
    /\ last.input = <<"u">>
    /\ visitCalls = 1
    /\ searchCalls = 1
    /\ \E i \in 1..Len(messages) :
         messages[i].content = <<"Observation from ", "fly", ":\n", "Unknown action: ", "fly">>

\* C3: a round whose decision has an action other than "answer" appends
\* exactly two messages: the assistant message with the JSON-serialised
\* decision, then the user message "Observation from <action>:" with the
\* observation; every call of call_llm_step receives the whole history.
C3_HistoryGrowsByTwo ==
    [][LLMCalled =>
        /\ llmInput' = messages
        /\ (Decided /\ Get(last'.decision, "action:") # <<"answer">>) =>
             /\ Len(messages') = Len(messages) + 2
             /\ SubSeq(messages', 1, Len(messages)) = messages
             /\ messages'[Len(messages) + 1].role = "assistant"
             /\ json_loads(messages'[Len(messages) + 1].content) = last'.decision
             /\ messages'[Len(messages) + 2] =
                  [role |-> "user",
                   content |-> <<"Observation from ">> \o Get(last'.decision, "action:")
                                 \o <<":\n">> \o last'.observation]]_vars

\* the second call received a history that ends with a decision and its observation
C3_Witness ==
    /\ llmCalls = 2
    /\ Len(llmInput) = 4
    /\ llmInput[3].role = "assistant"
    /\ llmInput[4].content = <<"Observation from ", "search", ":\n", "Search failed">>

\* C4: the round whose decision has action "answer" ends the run: the function
\* returns the decision's action_input, the round calls no tool and leaves the
\* history alone, and once the function has returned nothing happens any more.
C4_AnswerEndsRun ==
    [][/\ (LLMCalled /\ Decided /\ Get(last'.decision, "action:") = <<"answer">>) =>
            /\ rpc' = "returned"
            /\ retval' = Get(last'.decision, "action_input:")
            /\ messages' = messages
            /\ searchCalls' = searchCalls
            /\ visitCalls' = visitCalls
       /\ rpc # "returned"]_vars

\* an answer was returned after a search and a visit
C4_Witness ==
    /\ rpc = "returned"
    /\ retval = <<"q">>
    /\ llmCalls = 3
    /\ searchCalls = 1
    /\ visitCalls = 1

\* ---- the attempts of extract_json_from_response as the claim words them
Positions(c, chars) == {i \in 1..Len(c) : c[i] \in chars}

\* the text from the first of `opening` to the last of `closing`, parsed
SpanAttempt(c, opening, closing) ==
    IF Positions(c, opening) = {} \/ Positions(c, closing) = {} THEN Nothing
    ELSE IF Min(Positions(c, opening)) >= Max(Positions(c, closing)) THEN Nothing
    ELSE json_loads(Cut(c, Min(Positions(c, opening)), Max(Positions(c, closing))))

\* the body of the first code fence (between the first two fence marks,
\* after an optional json tag), parsed
FenceAttempt(c) ==
    LET marks == Positions(c, {"F"})
    IN  IF Cardinality(marks) < 2 THEN Nothing
        ELSE LET open == Min(marks)
                 close == Min(marks \ {open})
                 from == IF c[open + 1] = "j" THEN open + 2 ELSE open + 1
             IN  json_loads(SubSeq(c, from, close - 1))

Attempts(text) ==
    <<json_loads(Strip(text)),
      FenceAttempt(Strip(text)),
      SpanAttempt(Strip(text), {"{"}, {"}", "s}"}),
      SpanAttempt(Strip(text), {"["}, {"]"})>>

FirstParsed(attempts) ==
    IF \A i \in 1..Len(attempts) : ~attempts[i].ok THEN Nothing
    ELSE attempts[Min({i \in 1..Len(attempts) : attempts[i].ok})]

C6_WrappedObjectExtracted ==
    \A pre \in Prefixes, f \in Fences, obj \in Objects, post \in Suffixes :
        jtext = pre \o f[1] \o obj \o f[2] \o post =>
            /\ respDone => jresp = Parsed(NoWs(obj))
            /\ textDone => jtxt = Parsed(NoWs(obj))

\* C7 as claimed: on every text the two extractors return the same value.
C7_SameOnEveryText == (respDone /\ textDone) => jresp = jtxt

\* C7 amended: the two extractors return the same value on every text that
\* is empty or that parses as JSON as a whole.
C7_SameOnDirectParse ==
    (respDone /\ textDone /\ (jtext = <<>> \/ json_loads(Strip(jtext)).ok)) =>
        jresp = jtxt

\* both extractors parsed a whole text that had whitespace around it
C7_Witness ==
    /\ respDone
    /\ textDone
    /\ Len(jtext) >= 3
    /\ jtext[1] = " "
    /\ jresp.ok
    /\ jresp = jtxt
    /\ jresp.val = NoWs(jtext)

\* ---- the deep-research session
CallsNamed(name) == SelectSeq(calls, LAMBDA c : c.name = name)

StepsOfType(steps, type) == SelectSeq(steps, LAMBDA st : st.step_type = type)

\* C8: a session that raises no exception calls generate_search_queries
\* exactly research_depth times, for the levels 1..research_depth in order;
\* each query is searched and then analysed before the next one, in list
\* order, with at most one call in flight; synthesize_research_streaming is
\* called once after the last round and save_research once after it, so that
\* the saved steps end with the only step of type "synthesis".
C8_FixedDepthSequentialLoop ==
    /\ Cardinality(inflight) <= 1
    /\ spc = "done" =>
        /\ CallsNamed("generate_search_queries") =
             [d \in 1..research_depth |->
                Call("generate_search_queries", d, NoQuery)]
        /\ \A i \in 1..Len(calls) :
             /\ calls[i].name = "search_with_exa" =>
                  /\ calls[i + 1] =
                       Call("analyze_sources_streaming", calls[i].round, calls[i].query)
                  /\ calls[i].query.number > 1 =>
                       calls[i - 2] = Call("search_with_exa", calls[i].round,
                                           Query(calls[i].round, calls[i].query.number - 1))
                  /\ calls[i].query.number <= 1 =>
                       calls[i - 1] =
                         Call("generate_search_queries", calls[i].round, NoQuery)
             /\ calls[i].name = "analyze_sources_streaming" =>
                  calls[i - 1].name = "search_with_exa"
        /\ Len(CallsNamed("synthesize_research_streaming")) = 1
        /\ Len(CallsNamed("save_research")) = 1
        /\ calls[Len(calls) - 1].name = "synthesize_research_streaming"
        /\ calls[Len(calls)].name = "save_research"
        /\ saved = research_steps
        /\ saved[Len(saved)].step_type = "synthesis"
        /\ Len(StepsOfType(saved, "synthesis")) = 1

\* a session of two rounds, one of them with several queries, was saved
C8_Witness ==
    /\ spc = "done"
    /\ research_depth = 2
    /\ Len(CallsNamed("search_with_exa")) >= 4
    /\ \E i \in 1..Len(calls) :
         calls[i] = Call("search_with_exa", 2, Query(2, 3))
    /\ Len(saved) >= 5

\* C9: the total step count is research_depth * max_sources_per_step + 1: at
\* every progress update current_step <= total_steps, and when the session
\* completes the recorded steps are total_steps many, research_depth *
\* max_sources_per_step of them search_analysis steps and one a synthesis.
C9_TotalStepCount ==
    /\ total_steps = research_depth * max_sources_per_step + 1
    /\ current_step <= total_steps
    /\ spc = "done" =>
        /\ Len(research_steps) = total_steps
        /\ Len(StepsOfType(research_steps, "search_analysis")) =
             research_depth * max_sources_per_step
        /\ Len(StepsOfType(research_steps, "synthesis")) = 1

\* ---- the page workers of pdf2md
\* C10: at every moment at most 5 process_single_page_vlm calls execute, for
\* a PDF of any number of pages, and every page is submitted exactly once:
\* the submitted pages are distinct and, once all are in, are 1..numPages.
C10_BoundedPool ==
    /\ Cardinality(running) <= 5
    /\ \A i, k \in 1..Len(submitted) : submitted[i] = submitted[k] => i = k
    /\ AllSubmitted => {submitted[i] : i \in 1..Len(submitted)} = 1..numPages

\* five pages are being processed while a sixth waits in the queue
C10_Witness ==
    /\ Cardinality(running) = 5
    /\ queue # <<>>
    /\ numPages > 5


\* ---- the join, the refinement and the files of pdf2md
\* the contents the page futures hold, page 1 first
ContentsByPage == [p \in 1..numPages |-> finished[p]]

\* C11: for every interleaving and completion order of the page workers, the
\* raw text handed to refine_full_text_llm is the per-page contents joined in
\* ascending page-number order, page 1 first
C11_JoinedInPageOrder ==
    raw_markdown # Absent =>
        /\ DOMAIN finished = 1..numPages
        /\ raw_markdown = join(ContentsByPage)

\* refine_full_text_llm was called for three or more pages that all have
\* text and whose results arrived out of page order
C11_Witness ==
    /\ raw_markdown # Absent
    /\ numPages >= 3
    /\ failed = {}
    /\ collected[1] > collected[2]
    /\ collected[numPages] = 1


\* ---- the git commands of commit_msg
GitCalled(cmd) == \E i \in 1..Len(git_calls) : git_calls[i] = cmd

CountCalls(cmd) == Len(SelectSeq(git_calls, LAMBDA c : c = cmd))

\* git push was executed only with -p, after a git commit that returned 0,
\* and without -c neither command was executed
PushGated ==
    /\ CountCalls("commit") <= 1
    /\ CountCalls("push") <= 1
    /\ GitCalled("push") =>
          /\ args.push
          /\ commit_code = 0
          /\ \E i, k \in 1..Len(git_calls) :
                i < k /\ git_calls[i] = "commit" /\ git_calls[k] = "push"
    /\ ~args.commit => ~GitCalled("commit") /\ ~GitCalled("push")

\* C12 as stated: git commit is executed only with -c and when the user
\* answered the prompt with '', 'y' or 'yes' (the answer as typed); git push
\* only with -p after a commit that returned 0; nothing without -c
C12_CommitOnlyOnLiteralAnswer ==
    /\ GitCalled("commit") =>
          args.commit /\ answer \in {<<>>, <<"y">>, <<"y", "e", "s">>}
    /\ PushGated

\* C12 amended: git commit is executed only with -c and when the answer,
\* stripped of surrounding whitespace and lowercased, is '', 'y' or 'yes';
\* git push only with -p after a commit that returned 0, and after it;
\* nothing without -c
C12_CommitOnlyOnConfirmation ==
    /\ GitCalled("commit") =>
          args.commit /\ lower(Strip(answer)) \in {<<>>, <<"y">>, <<"y", "e", "s">>}
    /\ PushGated

\* with -c and -p the user typed Y, the commit returned 0 and the push ran
C12_Witness ==
    /\ args.commit /\ args.push
    /\ answer = <<"Y">>
    /\ commit_code = 0
    /\ git_calls[Len(git_calls)] = "push"
    /\ cpc = "done"


\* ---- the temporary clone of merge_codebase_context
\* main has ended, by return or by an exception
MergeEnded == mpc \in {"returned", "raised"}

\* C13: when the source is a repository URL the temporary clone directory
\* is removed on every exit path (after a failed clone, after process_path
\* succeeds, after process_path raises), and a local source directory given
\* by the user is never removed
C13_TempCloneRemoved ==
    /\ (MergeEnded /\ source_arg = "url") => "tmp" \notin disk
    /\ source_arg = "local" => "local" \in disk


\* ---- the temporary clone of code_reviewer
\* C14: when the path is a repository URL, the temporary directory the
\* repository was cloned into is removed once the review has finished,
\* whether stream_review succeeded or failed
C14_ReviewCloneRemoved ==
    (path = "url" /\ vpc \in {"returned", "exited", "raised"}
       /\ review \in {"returned", "exit", "raised"})
        => "tmp" \notin review_disk


\* ---- the end of the ReAct loop, parse failures, content before reasoning
\* C15: "Max steps reached." is reported only when all 7 steps were consumed
\* without an answer: in every run that prints it, call_llm_step was called
\* exactly max_steps times
C15_MaxStepsOnlyAfterSeven ==
    printedMax => (llmCalls = max_steps /\ rpc = "finished")

\* the round just made extracted no decision from the content and none from
\* the reasoning
NothingExtracted == ~Truthy(last'.content_json) /\ ~Truthy(last'.reasoning_json)

\* the round just made: no tool call, the error message alone appended, the
\* step counted and the run still in the loop
ParseFailureHandled ==
    /\ searchCalls' = searchCalls
    /\ visitCalls' = visitCalls
    /\ messages' = Append(messages, ErrorMessage)
    /\ step' = step + 1
    /\ rpc' = "loop"
    /\ retval' = retval

\* C16 as stated: in a round where no JSON decision can be extracted from
\* either the content or the reasoning, no tool is called, exactly one user
\* message "Error: No valid JSON found. Please output ONLY JSON." is appended
\* and the loop proceeds with the step counted
C16_ParseFailureAnyRound ==
    [][(LLMCalled /\ NothingExtracted) => ParseFailureHandled]_vars

\* C16 amended: the same, for a round whose content and reasoning are not
\* both empty (a round whose result is entirely empty ends the loop instead)
C16_ParseFailureRound ==
    [][(LLMCalled /\ NothingExtracted
          /\ ~(last'.result.content = <<>> /\ last'.result.reasoning = <<>>))
        => ParseFailureHandled]_vars

\* after a round with prose in the content and nothing in the reasoning, the
\* next call received a history that ends with the error message, and the
\* run went on
C16_Witness ==
    /\ llmCalls >= 3
    /\ messages[3] = ErrorMessage
    /\ Len(llmInput) >= 3
    /\ llmInput[3] = ErrorMessage
    /\ searchCalls = 1
    /\ rpc = "loop"

\* C17: the decision is the one extracted from the content whenever that
\* extraction is truthy; the reasoning trace is used only when the content
\* yields nothing, so with a decision in both the content's is taken
C17_ContentBeforeReasoning ==
    [][(LLMCalled /\ ~(last'.result.content = <<>> /\ last'.result.reasoning = <<>>)) =>
        /\ Truthy(last'.content_json) =>
              last'.decision = last'.content_json /\ last'.source = "content"
        /\ ~Truthy(last'.content_json) =>
              last'.decision = last'.reasoning_json /\ last'.source = "reasoning"
        /\ (Truthy(last'.content_json) /\ IsDict(last'.content_json)) =>
              last'.tool = (IF Get(last'.content_json, "action:") = <<"search">>
                            THEN "tools_search"
                            ELSE IF Get(last'.content_json, "action:") = <<"visit">>
                            THEN "tools_visit" ELSE "none")]_vars

\* a round with a search decision in the content and a visit decision in
\* the reasoning called tools_search
C17_Witness ==
    /\ last.content_json = Parsed(SearchDecision)
    /\ last.reasoning_json = Parsed(VisitDecision)
    /\ last.source = "content"
    /\ last.tool = "tools_search"
    /\ searchCalls = 1
    /\ visitCalls = 0


\* ---- the progress bar of the deep-research session
\* fractions <<numerator, denominator>> compared by cross-multiplication
FractionLeq(a, b) == a[1] * b[2] <= b[1] * a[2]

FractionEq(a, b) == a[1] * b[2] = b[1] * a[2]

\* C18: the value shown on the progress bar never decreases and never
\* exceeds 1.0; every update inside the query loop shows at most 0.95, for
\* any number of queries; 0.96 is shown when the synthesis starts; 1.0 is
\* shown only after save_research has returned
C18_ProgressMonotone ==
    [][/\ FractionLeq(progress, progress')
       /\ FractionLeq(progress', <<1, 1>>)
       /\ current_step' # current_step => FractionLeq(progress', <<95, 100>>)
       /\ spc' = "synthesising" => FractionEq(progress', <<96, 100>>)
       /\ FractionEq(progress', <<1, 1>>) =>
             /\ spc' = "done"
             /\ calls'[Len(calls')].name = "save_research"
             /\ saved' = research_steps']_vars

\* a finished session whose rounds returned more queries than total_steps
\* allows for, so that the cap of 0.95 was in force
C18_Witness ==
    /\ spc = "done"
    /\ current_step > total_steps
    /\ progress = <<1, 1>>


\* C19: raw.md is written with the joined OCR text before
\* refine_full_text_llm is called; when the refinement request or its stream
\* raises, refine_full_text_llm returns the unmodified raw text, whatever it
\* had accumulated, and the output file is still written and equals the raw
\* text
C19_RawTextSurvivesRefinement ==
    /\ raw_markdown # Absent =>
          /\ raw_md = raw_full_text
          /\ raw_markdown = raw_full_text
          /\ raw_full_text = join(ContentsByPage)
    /\ refined = "raised" =>
          /\ final_text = raw_md
          /\ ppc \in {"write", "done"}
    /\ ppc = "write" => ENABLED WriteOutput
    /\ (ppc = "done" /\ refined = "raised") => output = raw_md

\* the stream of the refinement broke after a chunk had arrived, and the
\* output file holds the raw text of three pages
C19_Witness ==
    /\ ppc = "done"
    /\ refined = "raised"
    /\ full_content \notin {Absent, <<>>}
    /\ numPages = 3
    /\ failed = {}
    /\ output = raw_md
    /\ raw_md = <<1>> \o Separator \o <<2>> \o Separator \o <<3>>

\* C20: when process_single_page_vlm fails for any subset of the pages, once
\* the pool has drained results holds exactly one entry for every page
\* 1..N, the failed pages map to the empty string and the other pages hold
\* their own model output
C20_FailedPagesIsolated ==
    ppc \notin {"idle", "pool"} =>
        /\ DOMAIN results = 1..numPages
        /\ Len(collected) = numPages
        /\ \A p \in 1..numPages :
              results[p] = IF p \in failed THEN <<>> ELSE PageMarkdown(p)

\* the pool has drained for four pages of which the second and the last
\* failed, the second being collected first
C20_Witness ==
    /\ ppc = "joined"
    /\ numPages = 4
    /\ failed = {2, 4}
    /\ collected[1] = 2
    /\ results[1] = PageMarkdown(1)
    /\ results[2] = <<>>

\* the five fields of a step that make up its content
StepContent(s) == <<s.query, s.step_type, s.sources, s.analysis, s.reasoning>>

\* C21: once load_research has read back the file save_research wrote, the
\* loaded query is the saved query and the loaded steps are the saved steps,
\* as many and in the same order, each with the same query, step_type,
\* sources, analysis and reasoning (the timestamps are left out of the
\* comparison).
C21_SaveLoadRoundTrip ==
    tpc = "loaded" =>
        /\ loaded.query = store_query
        /\ Len(loaded.steps) = Len(store_steps)
        /\ \A i \in DOMAIN store_steps :
             StepContent(loaded.steps[i]) = StepContent(store_steps[i])

\* a research of two steps, one with two sources of which one has None
\* fields, was saved and loaded, and a loaded step has a new timestamp
C21_Witness ==
    /\ tpc = "loaded"
    /\ Len(store_steps) = 2
    /\ Len(store_steps[1].sources.items) = 2
    /\ loaded.steps[1].sources = store_steps[1].sources
    /\ loaded.steps[1].timestamp # store_steps[1].timestamp

\* the roles of a message list are user, assistant, user, assistant, ...
RolesAlternate(msgs) ==
    \A i \in DOMAIN msgs : msgs[i].role = IF i % 2 = 1 THEN "user" ELSE "assistant"

\* a step of the page that handles a prompt appends one user message when the
\* prompt is submitted, one assistant message when the request ends, and
\* nothing while the conversation is named and saved
PromptAppendsPair ==
    /\ (gpc = "idle" /\ gpc' = "answering") =>
          /\ Len(session_messages') = Len(session_messages) + 1
          /\ session_messages'[Len(session_messages')].role = "user"
    /\ gpc = "answering" =>
          /\ Len(session_messages') = Len(session_messages) + 1
          /\ session_messages'[Len(session_messages')].role = "assistant"
    /\ gpc \in {"naming", "saving"} => session_messages' = session_messages
    /\ RolesAlternate(session_messages')

\* while a prompt is handled, current_convo changes only if this is the
\* first prompt of the conversation, and a name once given stays
NamedOnFirstPromptOnly ==
    gpc # "idle" =>
       /\ current_convo' # current_convo => Len(session_messages) = 2
       /\ current_convo # NoConvo => current_convo' = current_convo

\* C22: every submitted prompt appends exactly one user message and then
\* exactly one assistant message to st.session_state.messages, also when the
\* request fails, so that the roles alternate user, assistant; and
\* current_convo is assigned a file name while the first prompt of the
\* conversation is handled and at no later prompt.
C22_PairPerPromptNamedOnce == [][PromptAppendsPair /\ NamedOnFirstPromptOnly]_vars

\* the part of C22 about the messages alone
ChatMessagesAlternate == [][PromptAppendsPair]_vars

====
